---- MODULE Spec2Model ----
(***************************************************************************)
(* A model of the SSH backend of distant (distant-ssh2/src/api.rs): the    *)
(* process registries of SshDistantApi and ConnectionState with the        *)
(* proc_spawn / proc_kill / proc_stdin / proc_resize_pty handlers and the  *)
(* cleanup continuation; the remove, exists, read_dir, create_dir,         *)
(* set_permissions, version, system_info, read_file and write_file         *)
(* handlers acting on a remote host reached through SSH and SFTP; the      *)
(* request / response correlation between clients and a server             *)
(* (distant-net); and the manager client (distant-net/src/manager).        *)
(***************************************************************************)
EXTENDS Integers, Sequences, FiniteSets, TLC

(***************************************************************************)
(* Bounds of the model.                                                    *)
(***************************************************************************)
MaxProcs == 2
MaxCalls == 2
MaxConns == 1
QueueCap == 1

ProcIds == 1..MaxProcs
CallIds == 1..MaxCalls
Conns == 1..MaxConns
ProcOps == {"kill", "stdin", "resize"}

VARIABLES
    processes,        \* SshDistantApi.processes: ids held by the global registry
    local_processes,  \* ConnectionState.processes of every connection
    connAlive,        \* the connection (and its ConnectionState) still exists
    gReaders,         \* calls holding a read guard of the global registry
    spawnPc,          \* position of the proc_spawn call that yields process id p
    pconn,            \* connection a process was spawned on (0: not spawned)
    ppty,             \* the process was spawned with a PTY
    pstate,           \* the remote process and its worker
    rxOpen,           \* per process and queue: the receiving end is still held
    queue,            \* per process and queue: messages waiting
    cleanupPc,        \* position of the cleanup continuation of process p
    calls             \* the proc_kill / proc_stdin / proc_resize_pty calls

procVars == <<processes, local_processes, connAlive, gReaders, spawnPc, pconn,
              ppty, pstate, rxOpen, queue, cleanupPc, calls>>

MaxNodes == 5
MaxLinks == 1
MaxDenied == 1
MaxOps == 2

VARIABLES
    fsKind,      \* remote file system: what each node is ("none": absent)
    fsTarget,    \* remote file system: the node a symbolic link points to (0: dangling)
    denied,      \* nodes the remote refuses to delete (permissions)
    rm,          \* the remove handler: position, arguments, locals, result
    pre,         \* fsKind when the running (or last) remove was called
    prev,        \* summary of the remove completed before the current one
    ex,          \* the last answer of exists since the last remove
    opsDone      \* number of remove calls started

fsVars == <<fsKind, fsTarget, denied, rm, pre, prev, ex, opsDone>>

MaxClients == 2
MaxReqIds == 2
MaxReplies == 2
MaxRequests == 2
OutboundCap == 1

RpcClients == 1..MaxClients
ReqIds == 1..MaxReqIds

VARIABLES
    transportUp,  \* per client: its transport to the server is up
    usedIds,      \* per client: the request ids it has used
    registry,     \* per client: the sink registered for a request id ("none": no sink)
    outbound,     \* per client: the requests queued for and in flight to the server
    handlers,     \* server: the handler invocations in progress
    inbound,      \* per client: the responses in flight to it
    mailbox       \* per client and request id: the items its sink has received

rpcVars == <<transportUp, usedIds, registry, outbound, handlers, inbound, mailbox>>

MaxDepth == 4
MaxUnlistable == 1

VARIABLES
    unlistable,  \* remote file system: directories the remote refuses to list
    rd           \* the read_dir handler: position, arguments, locals, result

rdVars == <<unlistable, rd>>

MaxUnwritable == 1

VARIABLES
    unwritable,  \* remote file system: directories the remote refuses to create entries in
    mk           \* the create_dir handler: position, arguments, locals, result

mkVars == <<unwritable, mk>>

VARIABLES
    fsMode,      \* remote file system: the permissions of each node
    sp,          \* the last set_permissions call: arguments and result
    ver          \* the capabilities of the last answer of version

capVars == <<fsMode, sp, ver>>

MaxApis == 2

Apis == 1..MaxApis

VARIABLES
    remote,      \* the host behind each SshDistantApi's session: what it would answer
    IS_WINDOWS,  \* the static cell of is_windows: <<>> or <<value>>
    CURRENT_DIR, \* the static cells of system_info
    USERNAME,
    SHELL,
    si           \* the last answer of system_info on each api

siVars == <<remote, IS_WINDOWS, CURRENT_DIR, USERNAME, SHELL, si>>

MaxResponses == 3
MaxAuthIds == 2
MaxPayloads == 2

AuthIds == 1..MaxAuthIds
Payloads == 1..MaxPayloads

VARIABLES
    mgrUp,       \* manager client: the transport to the manager is up
    mbox,        \* the responses delivered to the mailbox of the call and not yet taken
    late,        \* the responses to the call's request that found no mailbox
    mc           \* the call in progress: operation, responses taken, handler calls,
                 \* Authenticate requests fired, result

mgrVars == <<mgrUp, mbox, late, mc>>

MaxFileLen == 3

VARIABLES
    fileData,    \* remote files: the bytes of each file, Absent when there is none
    wf,          \* the last write_file call on each file: its result, and its data when Ok
    rf           \* the last read_file call since the last write: file and result

fileVars == <<fileData, wf, rf>>

MaxLockConns == 2

LockConns == 1..MaxLockConns

VARIABLES
    gReg,        \* SshDistantApi.processes: the ids in the global registry
    lReg,        \* ConnectionState.processes of every connection
    gLock,       \* the RwLock around the global registry
    lLock,       \* the RwLock around each connection's registry
    lkAlive,     \* the connection's ConnectionState still exists
    spawnT,      \* the proc_spawn call that yields process id p
    workerT,     \* the worker of process p, with its three queues
    cleanupT,    \* the cleanup continuation of process p
    callT        \* the proc_kill / proc_stdin / proc_resize_pty calls

lockVars == <<gReg, lReg, gLock, lLock, lkAlive, spawnT, workerT, cleanupT, callT>>

MaxCliProcs == 2

VARIABLES
    cli          \* one run of the CLI action: the command, what start did and its result

cliVars == <<cli>>

vars == <<procVars, fsVars, rpcVars, rdVars, mkVars, capVars, siVars, mgrVars, fileVars, lockVars, cliVars>>

\* What the handlers of one part of the program leave alone.
notProc == <<fsVars, rpcVars, rdVars, mkVars, capVars, siVars, mgrVars, fileVars, lockVars, cliVars>>
notFs == <<procVars, rpcVars, rdVars, mkVars, capVars, siVars, mgrVars, fileVars, lockVars, cliVars>>
notRpc == <<procVars, fsVars, rdVars, mkVars, capVars, siVars, mgrVars, fileVars, lockVars, cliVars>>
notRd == <<procVars, fsVars, rpcVars, mkVars, capVars, siVars, mgrVars, fileVars, lockVars, cliVars>>
notMk == <<procVars, rpcVars, rdVars, capVars, siVars, mgrVars, fileVars, lockVars, cliVars>>
notCap == <<procVars, fsVars, rpcVars, rdVars, mkVars, siVars, mgrVars, fileVars, lockVars, cliVars>>
notSi == <<procVars, fsVars, rpcVars, rdVars, mkVars, capVars, mgrVars, fileVars, lockVars, cliVars>>
notMgr == <<procVars, fsVars, rpcVars, rdVars, mkVars, capVars, siVars, fileVars, lockVars, cliVars>>
notFile == <<procVars, fsVars, rpcVars, rdVars, mkVars, capVars, siVars, mgrVars, lockVars, cliVars>>
notLock == <<procVars, fsVars, rpcVars, rdVars, mkVars, capVars, siVars, mgrVars, fileVars, cliVars>>
notCli == <<procVars, fsVars, rpcVars, rdVars, mkVars, capVars, siVars, mgrVars, fileVars, lockVars>>

IdleCall == [pc |-> "idle", op |-> "kill", id |-> 1, conn |-> 1, res |-> "none",
             miss |-> FALSE, live |-> FALSE, late |-> FALSE, afterKill |-> FALSE,
             alive |-> FALSE]

ProcInit ==
    /\ processes = {}
    /\ local_processes = [c \in Conns |-> {}]
    /\ connAlive = [c \in Conns |-> TRUE]
    /\ gReaders = {}
    /\ spawnPc = [p \in ProcIds |-> "none"]
    /\ pconn = [p \in ProcIds |-> 0]
    /\ ppty = [p \in ProcIds |-> FALSE]
    /\ pstate = [p \in ProcIds |-> "unborn"]
    /\ rxOpen = [p \in ProcIds |-> [o \in ProcOps |-> FALSE]]
    /\ queue = [p \in ProcIds |-> [o \in ProcOps |-> 0]]
    /\ cleanupPc = [p \in ProcIds |-> "none"]
    /\ calls = [k \in CallIds |-> IdleCall]

Nodes == 1..MaxNodes

\* The remote tree: node n is the entry named n of its parent; node 0 is
\* the root directory "/".
Parent(n) == n \div 2

NoRemove == [pc |-> "idle", path |-> <<>>, force |-> FALSE, to_traverse |-> <<>>,
             entries |-> <<>>, res |-> "none"]

FsIdle ==
    /\ fsKind = [n \in Nodes |-> "none"]
    /\ fsTarget = [n \in Nodes |-> 0]
    /\ denied = {}
    /\ rm = NoRemove
    /\ pre = [n \in Nodes |-> "none"]
    /\ prev = NoRemove
    /\ ex = <<>>
    /\ opsDone = 0

RpcIdle ==
    /\ transportUp = [c \in RpcClients |-> TRUE]
    /\ usedIds = [c \in RpcClients |-> {}]
    /\ registry = [c \in RpcClients |-> [i \in ReqIds |-> "none"]]
    /\ outbound = [c \in RpcClients |-> <<>>]
    /\ handlers = {}
    /\ inbound = [c \in RpcClients |-> <<>>]
    /\ mailbox = [c \in RpcClients |-> [i \in ReqIds |-> <<>>]]

NoReadDir == [pc |-> "idle", path |-> <<>>, depth |-> 0, absolute |-> FALSE, canonicalize |-> FALSE,
              include_root |-> FALSE, stray |-> "none", root_path |-> <<>>, to_traverse |-> <<>>,
              entries |-> <<>>, errors |-> <<>>, visited |-> 0, res |-> "none"]

RdIdle ==
    /\ unlistable = {}
    /\ rd = NoReadDir

NoError == [reason |-> "none", path |-> <<>>]

NoCreateDir == [pc |-> "idle", path |-> <<>>, all |-> FALSE, cur_path |-> <<>>, failed_paths |-> <<>>,
                first_err |-> NoError, log |-> <<>>, res |-> "none", err |-> NoError]

MkIdle ==
    /\ unwritable = {}
    /\ mk = NoCreateDir

Modes == {"rw", "ro"}

CapIdle ==
    /\ fsMode = [n \in Nodes |-> "rw"]
    /\ sp = <<>>
    /\ ver = {}

NoSystemInfo == [res |-> "none", family |-> "", os |-> "", current_dir |-> "", main_separator |-> "",
                 username |-> "", shell |-> ""]

UnixHost == [is_windows |-> FALSE, current_dir |-> "/home/a", username |-> "a", shell |-> "/bin/sh"]

SiIdle ==
    /\ remote = [a \in Apis |-> UnixHost]
    /\ IS_WINDOWS = <<>>
    /\ CURRENT_DIR = <<>>
    /\ USERNAME = <<>>
    /\ SHELL = <<>>
    /\ si = [a \in Apis |-> NoSystemInfo]

NoResult == [ok |-> FALSE, kind |-> "none", value |-> 0]

NoMgrCall == [pc |-> "idle", op |-> "none", taken |-> <<>>, handled |-> <<>>, fired |-> <<>>,
              res |-> NoResult]

MgrIdle ==
    /\ mgrUp = TRUE
    /\ mbox = <<>>
    /\ late = 0
    /\ mc = NoMgrCall

FilePaths == {"f"}
Absent == <<-1>>
NoWrite == [res |-> "none", data |-> <<>>]
NoRead == [res |-> "none", path |-> "", contents |-> <<>>, fault |-> "none"]

FileIdle ==
    /\ fileData = [f \in FilePaths |-> Absent]
    /\ wf = [f \in FilePaths |-> NoWrite]
    /\ rf = NoRead

\* A lock nobody holds or waits for; a task is named by its kind and number.
NoTask == <<>>
NoLock == [readers |-> {}, writer |-> NoTask, waiting |-> <<>>]
NoWorker == [st |-> "unborn", conn |-> 0, rx |-> FALSE, q |-> [o \in ProcOps |-> <<>>]]
NoCall == [pc |-> "idle", op |-> "kill", id |-> 1, conn |-> 1, res |-> "none", foreign |-> FALSE,
           delivered |-> FALSE]

LockIdle ==
    /\ gReg = {}
    /\ lReg = [c \in LockConns |-> {}]
    /\ gLock = NoLock
    /\ lLock = [c \in LockConns |-> NoLock]
    /\ lkAlive = [c \in LockConns |-> TRUE]
    /\ spawnT = [p \in ProcIds |-> "none"]
    /\ workerT = [p \in ProcIds |-> NoWorker]
    /\ cleanupT = [p \in ProcIds |-> "none"]
    /\ callT = [k \in CallIds |-> NoCall]

NoPayload == [type |-> "none", id |-> 0]
NoLoop == [config |-> "none", id |-> 0]
NoCli == [pc |-> "idle", interactive |-> FALSE, operation |-> "None", mode |-> "Json", sent |-> 0,
          payload |-> NoPayload, loop |-> NoLoop, failed |-> "none", res |-> "none"]

CliIdle == cli = NoCli

Init == ProcInit /\ FsIdle /\ RpcIdle /\ RdIdle /\ MkIdle /\ CapIdle /\ SiIdle /\ MgrIdle /\ FileIdle /\ LockIdle /\ CliIdle

\* The next id spawn_simple / spawn_pty hands out: ids are never reused.
NextProcId == CHOOSE p \in ProcIds : spawnPc[p] = "none" /\ \A q \in ProcIds : q < p => spawnPc[q] # "none"

\* proc_spawn up to the return of spawn_simple / spawn_pty: the worker is
\* started with the cleanup continuation and the three queues exist. (When the
\* spawn fails proc_spawn returns the error and no state changes.)
ProcSpawn(c, pty, resizer) ==
    /\ connAlive[c]
    /\ \E p \in ProcIds : spawnPc[p] = "none"
    /\ pty => resizer
    /\ LET p == NextProcId IN
        /\ spawnPc' = [spawnPc EXCEPT ![p] = "spawned"]
        /\ pconn' = [pconn EXCEPT ![p] = c]
        /\ ppty' = [ppty EXCEPT ![p] = pty]
        /\ pstate' = [pstate EXCEPT ![p] = "running"]
        /\ rxOpen' = [rxOpen EXCEPT ![p] = [o \in ProcOps |-> IF o = "resize" THEN resizer ELSE TRUE]]
    /\ UNCHANGED <<processes, local_processes, connAlive, gReaders, queue, cleanupPc, calls>>
    /\ UNCHANGED notProc

\* proc_spawn from the insertion into the global registry to Ok(id).
ProcSpawnInsert(p) ==
    /\ spawnPc[p] = "spawned"
    /\ gReaders = {}
    /\ processes' = processes \cup {p}
    /\ spawnPc' = [spawnPc EXCEPT ![p] = "returned"]
    /\ UNCHANGED <<local_processes, connAlive, gReaders, pconn, ppty, pstate, rxOpen, queue, cleanupPc, calls>>
    /\ UNCHANGED notProc

\* The worker takes one message from one of its queues; a kill message makes
\* it terminate the process.
WorkerRecv(p, o) ==
    /\ pstate[p] = "running"
    /\ rxOpen[p][o]
    /\ queue[p][o] > 0
    /\ queue' = [queue EXCEPT ![p][o] = @ - 1]
    /\ pstate' = [pstate EXCEPT ![p] = IF o = "kill" THEN "killed" ELSE @]
    /\ UNCHANGED <<processes, local_processes, connAlive, gReaders, spawnPc, pconn, ppty, rxOpen, cleanupPc, calls>>
    /\ UNCHANGED notProc

\* The process ends (by itself or killed): stdout/stderr reach EOF and the
\* worker calls the cleanup continuation.
ProcessExit(p) ==
    /\ pstate[p] \in {"running", "killed"}
    /\ pstate' = [pstate EXCEPT ![p] = "exited"]
    /\ cleanupPc' = [cleanupPc EXCEPT ![p] = "global"]
    /\ UNCHANGED <<processes, local_processes, connAlive, gReaders, spawnPc, pconn, ppty, rxOpen, queue, calls>>
    /\ UNCHANGED notProc

\* The worker of an ended process lets go of the receiving ends; the messages
\* still queued are lost.
WorkerDropRx(p) ==
    /\ pstate[p] = "exited"
    /\ \E o \in ProcOps : rxOpen[p][o]
    /\ rxOpen' = [rxOpen EXCEPT ![p] = [o \in ProcOps |-> FALSE]]
    /\ queue' = [queue EXCEPT ![p] = [o \in ProcOps |-> 0]]
    /\ UNCHANGED <<processes, local_processes, connAlive, gReaders, spawnPc, pconn, ppty, pstate, cleanupPc, calls>>
    /\ UNCHANGED notProc

\* cleanup: processes.write().await.remove(&id) on the global registry.
CleanupGlobal(p) ==
    /\ cleanupPc[p] = "global"
    /\ gReaders = {}
    /\ processes' = processes \ {p}
    /\ cleanupPc' = [cleanupPc EXCEPT ![p] = "local"]
    /\ UNCHANGED <<local_processes, connAlive, gReaders, spawnPc, pconn, ppty, pstate, rxOpen, queue, calls>>
    /\ UNCHANGED notProc

\* cleanup: remove(&id) on the connection's registry if it still exists; the
\* worker ends with its continuation and holds no receiving end after it.
CleanupLocal(p) ==
    /\ cleanupPc[p] = "local"
    /\ local_processes' = IF connAlive[pconn[p]]
                          THEN [local_processes EXCEPT ![pconn[p]] = @ \ {p}]
                          ELSE local_processes
    /\ cleanupPc' = [cleanupPc EXCEPT ![p] = "done"]
    /\ rxOpen' = [rxOpen EXCEPT ![p] = [o \in ProcOps |-> FALSE]]
    /\ queue' = [queue EXCEPT ![p] = [o \in ProcOps |-> 0]]
    /\ UNCHANGED <<processes, connAlive, gReaders, spawnPc, pconn, ppty, pstate, calls>>
    /\ UNCHANGED notProc

\* What a call observes of process id when it is issued.
Observed(k, c, o, id) ==
    [IdleCall EXCEPT
        !.op = o, !.id = id, !.conn = c,
        !.miss = id \notin processes,
        !.live = spawnPc[id] = "returned" /\ pstate[id] \in {"running", "killed"},
        !.late = cleanupPc[id] = "done",
        !.afterKill = \E j \in CallIds : /\ calls[j].pc = "done" /\ calls[j].op = "kill"
                                         /\ calls[j].id = id /\ calls[j].res = "Ok"]

\* ProcCall with the miss answered Ok.
ProcCall_MissOk(k, c, o, id) ==
    /\ calls[k].pc = "idle"
    /\ \A j \in CallIds : j < k => calls[j].pc # "idle"
    /\ connAlive[c]
    /\ IF id \in processes
       THEN /\ calls' = [calls EXCEPT ![k] = [Observed(k, c, o, id) EXCEPT !.pc = "sending"]]
            /\ gReaders' = gReaders \cup {k}
       ELSE /\ calls' = [calls EXCEPT ![k] = [Observed(k, c, o, id) EXCEPT !.pc = "done", !.res = "Ok",
                                                                           !.alive = pstate[id] \in {"running", "killed"}]]
            /\ UNCHANGED gReaders
    /\ UNCHANGED <<processes, local_processes, connAlive, spawnPc, pconn, ppty, pstate, rxOpen, queue, cleanupPc>>
    /\ UNCHANGED notProc

\* proc_kill / proc_stdin / proc_resize_pty up to the lookup under the read
\* guard: a miss falls through to the BrokenPipe error, a hit goes on to send
\* with the guard held.
ProcCall(k, c, o, id) ==
    /\ calls[k].pc = "idle"
    /\ \A j \in CallIds : j < k => calls[j].pc # "idle"
    /\ connAlive[c]
    /\ IF id \in processes
       THEN /\ calls' = [calls EXCEPT ![k] = [Observed(k, c, o, id) EXCEPT !.pc = "sending"]]
            /\ gReaders' = gReaders \cup {k}
       ELSE /\ calls' = [calls EXCEPT ![k] = [Observed(k, c, o, id) EXCEPT !.pc = "done", !.res = "BrokenPipe",
                                                                           !.alive = pstate[id] \in {"running", "killed"}]]
            /\ UNCHANGED gReaders
    /\ UNCHANGED <<processes, local_processes, connAlive, spawnPc, pconn, ppty, pstate, rxOpen, queue, cleanupPc>>
    /\ UNCHANGED notProc

\* ProcCallSend with the error of a send on a closed queue ignored.
ProcCallSend_IgnoreClosed(k) ==
    /\ calls[k].pc = "sending"
    /\ LET p == calls[k].id
           o == calls[k].op IN
        IF ~rxOpen[p][o]
        THEN /\ calls' = [calls EXCEPT ![k].pc = "done", ![k].res = "Ok",
                                       ![k].alive = pstate[p] \in {"running", "killed"}]
             /\ UNCHANGED queue
        ELSE /\ queue[p][o] < QueueCap
             /\ queue' = [queue EXCEPT ![p][o] = @ + 1]
             /\ calls' = [calls EXCEPT ![k].pc = "done", ![k].res = "Ok",
                                       ![k].alive = pstate[p] \in {"running", "killed"}]
    /\ gReaders' = gReaders \ {k}
    /\ UNCHANGED <<processes, local_processes, connAlive, spawnPc, pconn, ppty, pstate, rxOpen, cleanupPc>>
    /\ UNCHANGED notProc

\* The send on the process's queue: an error when the receiving end is gone,
\* otherwise it waits for capacity; then the guard is released.
ProcCallSend(k) ==
    /\ calls[k].pc = "sending"
    /\ LET p == calls[k].id
           o == calls[k].op IN
        IF ~rxOpen[p][o]
        THEN /\ calls' = [calls EXCEPT ![k].pc = "done", ![k].res = "BrokenPipe",
                                       ![k].alive = pstate[p] \in {"running", "killed"}]
             /\ UNCHANGED queue
        ELSE /\ queue[p][o] < QueueCap
             /\ queue' = [queue EXCEPT ![p][o] = @ + 1]
             /\ calls' = [calls EXCEPT ![k].pc = "done", ![k].res = "Ok",
                                       ![k].alive = pstate[p] \in {"running", "killed"}]
    /\ gReaders' = gReaders \ {k}
    /\ UNCHANGED <<processes, local_processes, connAlive, spawnPc, pconn, ppty, pstate, rxOpen, cleanupPc>>
    /\ UNCHANGED notProc

\* The connection ends (EOF or error): its ConnectionState is dropped.
\* SshDistantApi defines no hook for it and ConnectionState no Drop.
ConnTerminate(c) ==
    /\ connAlive[c]
    /\ connAlive' = [connAlive EXCEPT ![c] = FALSE]
    /\ UNCHANGED <<processes, local_processes, gReaders, spawnPc, pconn, ppty, pstate, rxOpen, queue, cleanupPc, calls>>
    /\ UNCHANGED notProc

ProcNext ==
    \/ \E c \in Conns, pty \in BOOLEAN, resizer \in BOOLEAN : ProcSpawn(c, pty, resizer)
    \/ \E p \in ProcIds : ProcSpawnInsert(p)
    \/ \E p \in ProcIds, o \in ProcOps : WorkerRecv(p, o)
    \/ \E p \in ProcIds : ProcessExit(p)
    \/ \E p \in ProcIds : WorkerDropRx(p)
    \/ \E p \in ProcIds : CleanupGlobal(p)
    \/ \E p \in ProcIds : CleanupLocal(p)
    \/ \E k \in CallIds, c \in Conns, o \in ProcOps, id \in ProcIds : ProcCall(k, c, o, id)
    \/ \E k \in CallIds : ProcCallSend(k)
    \/ \E c \in Conns : ConnTerminate(c)

SpecProc == Init /\ [][ProcNext]_vars

\* The tasks the executor keeps scheduling: the handlers, the workers' receive
\* and the cleanup continuations. A process is not bound to end by itself,
\* only once it was killed.
ProcFairness ==
    /\ \A p \in ProcIds : WF_vars(ProcSpawnInsert(p))
    /\ \A p \in ProcIds : WF_vars(CleanupGlobal(p))
    /\ \A p \in ProcIds : WF_vars(CleanupLocal(p))
    /\ \A p \in ProcIds : WF_vars(WorkerDropRx(p))
    /\ \A p \in ProcIds : WF_vars(pstate[p] = "killed" /\ ProcessExit(p))
    /\ \A p \in ProcIds, o \in ProcOps : WF_vars(WorkerRecv(p, o))
    /\ \A k \in CallIds : WF_vars(ProcCallSend(k))

SpecProcFair == SpecProc /\ ProcFairness

(***************************************************************************)
(* The remote file system as SFTP shows it, and remove / exists.           *)
(***************************************************************************)
KindOf(k, n) == IF n = 0 THEN "dir" ELSE IF n \in Nodes THEN k[n] ELSE "none"

RECURSIVE PathOf(_)
PathOf(n) == IF n = 0 THEN <<>> ELSE Append(PathOf(Parent(n)), n)

IsStrictPrefix(s, t) == Len(s) < Len(t) /\ SubSeq(t, 1, Len(s)) = s

Children(k, d) == {x \in Nodes : Parent(x) = d /\ k[x] # "none"}

\* The node a chain of symbolic links ends at; -1 when it is broken or loops.
RECURSIVE Follow(_, _, _)
Follow(k, n, fuel) ==
    IF n = -1 \/ KindOf(k, n) = "none" THEN -1
    ELSE IF KindOf(k, n) # "link" THEN n
    ELSE IF fuel = 0 \/ fsTarget[n] = 0 THEN -1
    ELSE Follow(k, fsTarget[n], fuel - 1)

\* Resolution of path from its i-th component on, cur being the directory
\* reached so far: links are followed in every component but the last.
RECURSIVE Walk(_, _, _, _)
Walk(k, path, i, cur) ==
    LET x == path[i]
        c == IF Parent(x) = cur /\ KindOf(k, x) # "none" THEN x ELSE -1
    IN  IF c = -1 THEN -1
        ELSE IF i = Len(path) THEN c
        ELSE LET d == Follow(k, c, MaxNodes)
             IN  IF d = -1 \/ KindOf(k, d) # "dir" THEN -1 ELSE Walk(k, path, i + 1, d)

\* sftp.symlink_metadata(path): the node path names, -1 on error.
SftpSymlinkMetadata(k, path) == IF path = <<>> THEN 0 ELSE Walk(k, path, 1, 0)

\* sftp.metadata(path): the node path names with a final link followed.
SftpMetadata(k, path) == Follow(k, SftpSymlinkMetadata(k, path), MaxNodes)

FileTypeOf(kind) == IF kind = "dir" THEN "Dir" ELSE IF kind = "file" THEN "File" ELSE "Symlink"

RECURSIVE SeqOfSet(_)
SeqOfSet(S) ==
    IF S = {} THEN <<>>
    ELSE LET m == CHOOSE x \in S : \A y \in S : x <= y IN <<m>> \o SeqOfSet(S \ {m})

\* sftp.read_dir(path): the directory path leads to, -1 on error.
SftpReadDirNode(k, path) ==
    LET d == SftpMetadata(k, path) IN IF d # -1 /\ KindOf(k, d) = "dir" THEN d ELSE -1

\* sftp.read_dir(path): the listing, each entry with the type of the entry itself.
SftpReadDir(k, path, depth) ==
    LET names == SeqOfSet(Children(k, SftpReadDirNode(k, path)))
    IN  [i \in 1..Len(names) |->
            [path |-> Append(path, names[i]), file_type |-> FileTypeOf(k[names[i]]), depth |-> depth + 1]]

\* sftp.remove_file(path) succeeds on a file or a link the remote lets go of.
SftpRemoveFileOk(k, path) ==
    LET n == SftpSymlinkMetadata(k, path)
    IN  n \in Nodes /\ k[n] \in {"file", "link"} /\ n \notin denied

\* sftp.remove_dir(path) succeeds on an empty directory the remote lets go of.
SftpRemoveDirOk(k, path) ==
    LET n == SftpSymlinkMetadata(k, path)
    IN  n \in Nodes /\ k[n] = "dir" /\ Children(k, n) = {} /\ n \notin denied

\* The file system once the entry path names is gone.
Unlinked(k, path) == [k EXCEPT ![SftpSymlinkMetadata(k, path)] = "none"]

\* utils::to_other_error: the io::ErrorKind an SFTP error is wrapped into.
to_other_error(x) == "Other"

Finished(path, force, res) == [NoRemove EXCEPT !.pc = "done", !.path = path, !.force = force, !.res = res]

\* RemoveStart with remove_dir and remove_file taken for each other.
RemoveStart_SwappedCalls(path, force) ==
    /\ rm.pc \in {"idle", "done"}
    /\ opsDone < MaxOps
    /\ opsDone' = opsDone + 1
    /\ pre' = fsKind
    /\ prev' = rm
    /\ ex' = <<>>
    /\ LET stat == SftpMetadata(fsKind, path) IN
        IF stat = -1
        THEN /\ rm' = Finished(path, force, to_other_error("NoSuchFile"))
             /\ UNCHANGED fsKind
        ELSE IF KindOf(fsKind, stat) \in {"file", "link"}
        THEN IF SftpRemoveDirOk(fsKind, path)
             THEN /\ fsKind' = Unlinked(fsKind, path)
                  /\ rm' = Finished(path, force, "Ok")
             ELSE /\ rm' = Finished(path, force, "PermissionDenied")
                  /\ UNCHANGED fsKind
        ELSE IF ~force
        THEN IF SftpRemoveFileOk(fsKind, path)
             THEN /\ fsKind' = Unlinked(fsKind, path)
                  /\ rm' = Finished(path, force, "Ok")
             ELSE /\ rm' = Finished(path, force, "PermissionDenied")
                  /\ UNCHANGED fsKind
        ELSE /\ rm' = [NoRemove EXCEPT !.pc = "collect", !.path = path, !.force = force,
                                       !.to_traverse = <<[path |-> path, file_type |-> "Dir", depth |-> 0]>>]
             /\ UNCHANGED fsKind
    /\ UNCHANGED <<fsTarget, denied>>
    /\ UNCHANGED notFs

\* remove up to the end of its first two branches, or to the start of the walk.
RemoveStart(path, force) ==
    /\ rm.pc \in {"idle", "done"}
    /\ opsDone < MaxOps
    /\ opsDone' = opsDone + 1
    /\ pre' = fsKind
    /\ prev' = rm
    /\ ex' = <<>>
    /\ LET stat == SftpMetadata(fsKind, path) IN
        IF stat = -1
        THEN /\ rm' = Finished(path, force, to_other_error("NoSuchFile"))
             /\ UNCHANGED fsKind
        ELSE IF KindOf(fsKind, stat) \in {"file", "link"}
        THEN IF SftpRemoveFileOk(fsKind, path)
             THEN /\ fsKind' = Unlinked(fsKind, path)
                  /\ rm' = Finished(path, force, "Ok")
             ELSE /\ rm' = Finished(path, force, "PermissionDenied")
                  /\ UNCHANGED fsKind
        ELSE IF ~force
        THEN IF SftpRemoveDirOk(fsKind, path)
             THEN /\ fsKind' = Unlinked(fsKind, path)
                  /\ rm' = Finished(path, force, "Ok")
             ELSE /\ rm' = Finished(path, force, "PermissionDenied")
                  /\ UNCHANGED fsKind
        ELSE /\ rm' = [NoRemove EXCEPT !.pc = "collect", !.path = path, !.force = force,
                                       !.to_traverse = <<[path |-> path, file_type |-> "Dir", depth |-> 0]>>]
             /\ UNCHANGED fsKind
    /\ UNCHANGED <<fsTarget, denied>>
    /\ UNCHANGED notFs

\* What makes an SFTP request fail besides the tree itself: the remote refuses
\* the lookup (permissions) or the transport breaks.
SftpFaults == {"none", "PermissionDenied", "Failure"}

\* One turn of the loop that collects the entries of the tree; the listing of
\* a directory can meet a fault.
RemoveCollect(fault) ==
    /\ rm.pc = "collect"
    /\ LET n == Len(rm.to_traverse)
           entry == rm.to_traverse[n]
           rest == SubSeq(rm.to_traverse, 1, n - 1)
           more == IF entry.file_type = "Dir"
                   THEN rest \o SftpReadDir(fsKind, entry.path, entry.depth)
                   ELSE rest
       IN  IF entry.file_type = "Dir" /\ (fault # "none" \/ SftpReadDirNode(fsKind, entry.path) = -1)
           THEN rm' = Finished(rm.path, rm.force, to_other_error(fault))
           ELSE rm' = [rm EXCEPT !.entries = Append(@, entry),
                                 !.to_traverse = more,
                                 !.pc = IF more = <<>> THEN "sort" ELSE "collect"]
    /\ UNCHANGED <<fsKind, fsTarget, denied, pre, prev, ex, opsDone>>
    /\ UNCHANGED notFs

\* The depths descending.
SortedByDepth_Descending(s) == \A i, j \in 1..Len(s) : i < j => s[i].depth >= s[j].depth

\* entries.sort_unstable_by_key(|e| e.depth): any order with the depths ascending.
SortedByDepth(s) == \A i, j \in 1..Len(s) : i < j => s[i].depth <= s[j].depth

SortUnstableByDepth(entries) ==
    {s \in {[i \in 1..Len(entries) |-> entries[f[i]]] : f \in Permutations(1..Len(entries))} :
        SortedByDepth(s)}

RemoveSort ==
    /\ rm.pc = "sort"
    /\ \E s \in SortUnstableByDepth(rm.entries) : rm' = [rm EXCEPT !.entries = s, !.pc = "delete"]
    /\ UNCHANGED <<fsKind, fsTarget, denied, pre, prev, ex, opsDone>>
    /\ UNCHANGED notFs

\* RemoveDelete with the error of a failed deletion dropped.
RemoveDelete_IgnoreErrors ==
    /\ rm.pc = "delete"
    /\ IF rm.entries = <<>>
       THEN /\ rm' = Finished(rm.path, rm.force, "Ok")
            /\ UNCHANGED fsKind
       ELSE LET n == Len(rm.entries)
                entry == rm.entries[n]
                ok == IF entry.file_type = "Dir"
                      THEN SftpRemoveDirOk(fsKind, entry.path)
                      ELSE SftpRemoveFileOk(fsKind, entry.path)
            IN  /\ fsKind' = IF ok THEN Unlinked(fsKind, entry.path) ELSE fsKind
                /\ rm' = [rm EXCEPT !.entries = SubSeq(@, 1, n - 1)]
    /\ UNCHANGED <<fsTarget, denied, pre, prev, ex, opsDone>>
    /\ UNCHANGED notFs

\* One turn of the loop that pops the entries and deletes them, or its end.
RemoveDelete ==
    /\ rm.pc = "delete"
    /\ IF rm.entries = <<>>
       THEN /\ rm' = Finished(rm.path, rm.force, "Ok")
            /\ UNCHANGED fsKind
       ELSE LET n == Len(rm.entries)
                entry == rm.entries[n]
                ok == IF entry.file_type = "Dir"
                      THEN SftpRemoveDirOk(fsKind, entry.path)
                      ELSE SftpRemoveFileOk(fsKind, entry.path)
            IN  IF ok
                THEN /\ fsKind' = Unlinked(fsKind, entry.path)
                     /\ rm' = [rm EXCEPT !.entries = SubSeq(@, 1, n - 1)]
                ELSE /\ rm' = Finished(rm.path, rm.force, "PermissionDenied")
                     /\ UNCHANGED fsKind
    /\ UNCHANGED <<fsTarget, denied, pre, prev, ex, opsDone>>
    /\ UNCHANGED notFs

\* Exists with a refused lookup taken for a path that is there.
Exists_TrueOnRefusal(path, fault) ==
    /\ rm.pc \in {"idle", "done"}
    /\ ex = <<>>
    /\ ex' = <<path, fault = "PermissionDenied" \/ (fault = "none" /\ SftpSymlinkMetadata(fsKind, path) # -1), fault>>
    /\ UNCHANGED <<fsKind, fsTarget, denied, rm, pre, prev, opsDone>>
    /\ UNCHANGED notFs

\* exists: Ok(symlink_metadata(path).is_ok()); ex keeps the path, the answer
\* and the fault the lookup met, for the one call observed between two removes.
Exists(path, fault) ==
    /\ rm.pc \in {"idle", "done"}
    /\ ex = <<>>
    /\ ex' = <<path, fault = "none" /\ SftpSymlinkMetadata(fsKind, path) # -1, fault>>
    /\ UNCHANGED <<fsKind, fsTarget, denied, rm, pre, prev, opsDone>>
    /\ UNCHANGED notFs

Links(k) == {n \in Nodes : k[n] = "link"}

\* The remote trees remove and exists are run on.
FsInit ==
    /\ fsKind \in [Nodes -> {"none", "file", "dir", "link"}]
    /\ \A n \in Nodes : fsKind[n] # "none" => KindOf(fsKind, Parent(n)) = "dir"
    /\ Cardinality(Links(fsKind)) <= MaxLinks
    /\ \E t \in [Links(fsKind) -> 0..MaxNodes] :
        /\ \A n \in Links(fsKind) : t[n] # n
        /\ fsTarget = [n \in Nodes |-> IF n \in Links(fsKind) THEN t[n] ELSE 0]
    /\ denied \in SUBSET {n \in Nodes : fsKind[n] # "none"}
    /\ Cardinality(denied) <= MaxDenied
    /\ rm = NoRemove
    /\ pre = fsKind
    /\ prev = NoRemove
    /\ ex = <<>>
    /\ opsDone = 0

Paths == {PathOf(n) : n \in Nodes}

FsNext ==
    \/ \E path \in Paths, force \in BOOLEAN : RemoveStart(path, force)
    \/ \E fault \in SftpFaults : RemoveCollect(fault)
    \/ RemoveSort
    \/ RemoveDelete
    \/ \E path \in Paths, fault \in SftpFaults : Exists(path, fault)

\* No process is spawned while remove and exists are examined.
InitFs ==
    /\ processes = {}
    /\ local_processes = [c \in Conns |-> {}]
    /\ connAlive = [c \in Conns |-> TRUE]
    /\ gReaders = {}
    /\ spawnPc = [p \in ProcIds |-> "none"]
    /\ pconn = [p \in ProcIds |-> 0]
    /\ ppty = [p \in ProcIds |-> FALSE]
    /\ pstate = [p \in ProcIds |-> "unborn"]
    /\ rxOpen = [p \in ProcIds |-> [o \in ProcOps |-> FALSE]]
    /\ queue = [p \in ProcIds |-> [o \in ProcOps |-> 0]]
    /\ cleanupPc = [p \in ProcIds |-> "none"]
    /\ calls = [k \in CallIds |-> IdleCall]
    /\ FsInit
    /\ RpcIdle
    /\ RdIdle
    /\ MkIdle
    /\ CapIdle
    /\ SiIdle
    /\ MgrIdle
    /\ FileIdle
    /\ LockIdle
    /\ CliIdle

SpecFs == InitFs /\ [][FsNext]_vars

(***************************************************************************)
(* Requests and responses between clients and a server: the untyped        *)
(* client's registry of sinks, the server's request loop and its replies.  *)
(***************************************************************************)
SinkKinds == {"oneshot", "multi"}
Terminal == {"ok", "error"}

\* The number of requests the clients c..MaxClients have made.
RECURSIVE RequestsMade(_)
RequestsMade(c) == IF c > MaxClients THEN 0 ELSE Cardinality(usedIds[c]) + RequestsMade(c + 1)

\* send(req) / mail(req): register the sink of the request id, then enqueue
\* the request; the call waits for capacity in the outbound queue.
ClientRequest(c, i, sink) ==
    /\ transportUp[c]
    /\ i \notin usedIds[c]
    /\ RequestsMade(1) < MaxRequests
    /\ Len(outbound[c]) < OutboundCap
    /\ usedIds' = [usedIds EXCEPT ![c] = @ \cup {i}]
    /\ registry' = [registry EXCEPT ![c][i] = sink]
    /\ outbound' = [outbound EXCEPT ![c] = Append(@, [id |-> i])]
    /\ UNCHANGED <<transportUp, handlers, inbound, mailbox>>
    /\ UNCHANGED notRpc

\* The request loop of a connection decodes the next request and starts the
\* handler with a reply bound to this connection and this request; the
\* handler will reply n times.
ServerDispatch(c, n) ==
    /\ transportUp[c]
    /\ outbound[c] # <<>>
    /\ outbound' = [outbound EXCEPT ![c] = Tail(@)]
    /\ handlers' = handlers \cup {[conn |-> c, id |-> Head(outbound[c]).id, left |-> n]}
    /\ UNCHANGED <<transportUp, usedIds, registry, inbound, mailbox>>
    /\ UNCHANGED notRpc

\* reply.send(payload) wraps the payload in a Response whose origin_id is the
\* id of the request the handler was called with; answers records that request.
Response_Wrap(h, payload) ==
    [origin_id |-> h.id, payload |-> payload, answers |-> <<h.conn, h.id>>]

\* ReplySend writing to the transport of another connection.
ReplySend_AnyConnection(h, payload) ==
    /\ h \in handlers
    /\ (h.left > 1) = (payload = "stream")
    /\ \E d \in RpcClients :
        IF transportUp[d]
        THEN /\ inbound' = [inbound EXCEPT ![d] = Append(@, Response_Wrap(h, payload))]
             /\ handlers' = (handlers \ {h}) \cup (IF h.left > 1 THEN {[h EXCEPT !.left = @ - 1]} ELSE {})
        ELSE /\ handlers' = handlers \ {h}
             /\ UNCHANGED inbound
    /\ UNCHANGED <<transportUp, usedIds, registry, outbound, mailbox>>
    /\ UNCHANGED notRpc

\* One reply of a handler: intermediate payloads, then a terminal one (a
\* result or an error). The reply is written to the handler's own connection;
\* when that is gone the send fails and the handler ends.
ReplySend(h, payload) ==
    /\ h \in handlers
    /\ (h.left > 1) = (payload = "stream")
    /\ IF transportUp[h.conn]
       THEN /\ inbound' = [inbound EXCEPT ![h.conn] = Append(@, Response_Wrap(h, payload))]
            /\ handlers' = (handlers \ {h}) \cup (IF h.left > 1 THEN {[h EXCEPT !.left = @ - 1]} ELSE {})
       ELSE /\ handlers' = handlers \ {h}
            /\ UNCHANGED inbound
    /\ UNCHANGED <<transportUp, usedIds, registry, outbound, mailbox>>
    /\ UNCHANGED notRpc

\* The reader task of a client takes the next response: delivered to the sink
\* registered for its origin_id, dropped when there is none; a one-shot sink
\* and a sink that got a terminal payload are removed after delivery.
ReaderTask(c) ==
    /\ transportUp[c]
    /\ inbound[c] # <<>>
    /\ LET r == Head(inbound[c])
           sink == registry[c][r.origin_id]
       IN  /\ inbound' = [inbound EXCEPT ![c] = Tail(@)]
           /\ IF sink = "none"
              THEN UNCHANGED <<mailbox, registry>>
              ELSE /\ mailbox' = [mailbox EXCEPT ![c][r.origin_id] = Append(@, r)]
                   /\ registry' = IF sink = "oneshot" \/ r.payload \in Terminal
                                  THEN [registry EXCEPT ![c][r.origin_id] = "none"]
                                  ELSE registry
    /\ UNCHANGED <<transportUp, usedIds, outbound, handlers>>
    /\ UNCHANGED notRpc

\* The transport of a client fails: what is in flight is lost and every sink
\* is closed with a transport-error final item.
TransportError(c) ==
    /\ transportUp[c]
    /\ transportUp' = [transportUp EXCEPT ![c] = FALSE]
    /\ outbound' = [outbound EXCEPT ![c] = <<>>]
    /\ inbound' = [inbound EXCEPT ![c] = <<>>]
    /\ mailbox' = [mailbox EXCEPT ![c] =
            [i \in ReqIds |-> IF registry[c][i] = "none" THEN @[i]
                              ELSE Append(@[i], [origin_id |-> i, payload |-> "transport-error",
                                                 answers |-> <<c, i>>])]]
    /\ registry' = [registry EXCEPT ![c] = [i \in ReqIds |-> "none"]]
    /\ UNCHANGED <<usedIds, handlers>>
    /\ UNCHANGED notRpc

RpcNext ==
    \/ \E c \in RpcClients, i \in ReqIds, sink \in SinkKinds : ClientRequest(c, i, sink)
    \/ \E c \in RpcClients, n \in 1..MaxReplies : ServerDispatch(c, n)
    \/ \E h \in handlers, payload \in Terminal \cup {"stream"} : ReplySend(h, payload)
    \/ \E c \in RpcClients : ReaderTask(c)
    \/ \E c \in RpcClients : TransportError(c)

SpecRpc == Init /\ [][RpcNext]_vars

\* The request loop, the handlers and the reader task are tasks the executor
\* keeps scheduling.
RpcFairness ==
    /\ \A c \in RpcClients : WF_vars(\E n \in 1..MaxReplies : ServerDispatch(c, n))
    /\ \A c \in RpcClients : WF_vars(ReaderTask(c))
    /\ WF_vars(\E h \in handlers, payload \in Terminal \cup {"stream"} : ReplySend(h, payload))

SpecRpcFair == SpecRpc /\ RpcFairness

(***************************************************************************)
(* read_dir. A path is the sequence of its components; the root component  *)
(* of an absolute path is 0, so that <<0, 1, 2>> is "/1/2" and <<2>> is    *)
(* the relative path "2".                                                  *)
(***************************************************************************)
IsAbsolute(p) == p # <<>> /\ p[1] = 0

AbsPath(n) == <<0>> \o PathOf(n)

\* The node an absolute path names, a final link not followed; -1 on error.
LstatAbs(k, p) == IF Len(p) = 1 THEN 0 ELSE Walk(k, Tail(p), 1, 0)

\* sftp.metadata(p) for an absolute path: the node it names, links followed.
StatAbs(k, p) == Follow(k, LstatAbs(k, p), MaxNodes)

\* utils::canonicalize(&sftp, p): the absolute path of the node p resolves to,
\* <<-1>> when p does not resolve.
Canonicalize(k, p) == IF StatAbs(k, p) = -1 THEN <<-1>> ELSE AbsPath(StatAbs(k, p))

\* sftp.read_dir(p): the directory that is listed, -1 on error.
ListedDir(k, p) ==
    LET d == StatAbs(k, p)
    IN  IF d # -1 /\ KindOf(k, d) = "dir" /\ d \notin unlistable THEN d ELSE -1

\* A path left as it is.
StripPrefix_Never(p, base) == p

\* Path::strip_prefix(base).unwrap_or(p)
StripPrefix(p, base) ==
    IF Len(base) <= Len(p) /\ SubSeq(p, 1, Len(base)) = base
    THEN SubSeq(p, Len(base) + 1, Len(p))
    ELSE p

\* What the session's working directory shows for a relative path, which the
\* root of the walk has no part in.
StrayKinds == {"none", "file", "dir", "same"}

\* sftp.metadata(p).unwrap_or(listed): the type of p with links followed; a
\* relative p is looked up from the working directory of the session.
RefreshedType(k, p, root_path, stray, listed) ==
    LET n == IF IsAbsolute(p) THEN StatAbs(k, p)
             ELSE IF stray = "same" THEN StatAbs(k, root_path \o p)
             ELSE -1
    IN  IF IsAbsolute(p) \/ stray = "same"
        THEN IF n = -1 THEN listed ELSE FileTypeOf(KindOf(k, n))
        ELSE IF stray = "none" THEN listed ELSE FileTypeOf(stray)

\* The order of PathBuf: component by component, a prefix first.
LexLeq(a, b) ==
    LET n == IF Len(a) < Len(b) THEN Len(a) ELSE Len(b)
        D == {i \in 1..n : a[i] # b[i]}
    IN  IF D = {} THEN Len(a) <= Len(b)
        ELSE LET i == CHOOSE x \in D : \A y \in D : x <= y IN a[i] < b[i]

RemoveAt(s, i) == SubSeq(s, 1, i - 1) \o SubSeq(s, i + 1, Len(s))

\* entries.sort_unstable_by_key(|e| e.path): every order with the paths
\* ascending, entries of equal paths in any order.
RECURSIVE SortUnstableByPath(_)
SortUnstableByPath(s) ==
    IF s = <<>> THEN {<<>>}
    ELSE LET mins == {i \in 1..Len(s) : \A j \in 1..Len(s) : LexLeq(s[i].path, s[j].path)}
         IN  UNION {{<<s[i]>> \o t : t \in SortUnstableByPath(RemoveAt(s, i))} : i \in mins}

RdFinished(res) == [rd EXCEPT !.pc = "done", !.res = res, !.to_traverse = <<>>, !.entries = <<>>, !.errors = <<>>]

\* read_dir up to the loop: the root is canonicalized and queued as a directory.
ReadDirStart(path, depth, absolute, canonicalize, include_root, stray) ==
    /\ rd.pc = "idle"
    /\ (stray # "none") => (canonicalize /\ ~absolute)
    /\ LET args == [NoReadDir EXCEPT !.path = path, !.depth = depth, !.absolute = absolute,
                                     !.canonicalize = canonicalize, !.include_root = include_root,
                                     !.stray = stray]
           root_path == Canonicalize(fsKind, path)
       IN  IF root_path = <<-1>>
           THEN rd' = [args EXCEPT !.pc = "done", !.res = "CanonicalizeError"]
           ELSE rd' = [args EXCEPT !.pc = "walk", !.root_path = root_path,
                                   !.to_traverse = <<[path |-> root_path, file_type |-> "Dir", depth |-> 0]>>]
    /\ UNCHANGED unlistable
    /\ UNCHANGED notRd

\* IncludeEntry with the root always left out.
IncludeEntry_NeverRoot(is_root, include_root) == ~is_root

\* if !is_root || include_root { entries.push(entry) }
IncludeEntry(is_root, include_root) == ~is_root \/ include_root

\* Descend with the depth limit ignored.
Descend_Unbounded(is_dir, depth, next_depth) == is_dir

\* if is_dir && (depth == 0 || next_depth <= depth)
Descend(is_dir, depth, next_depth) == is_dir /\ (depth = 0 \/ next_depth <= depth)

\* ListErrorIsFatal with the error of every directory fatal.
ListErrorIsFatal_Always(is_root) == TRUE

\* Err(x) if is_root => return Err(..); Err(x) => errors.push(x)
ListErrorIsFatal(is_root) == is_root

\* What the loop over a listing does with the child named c of the directory
\* at path: an error, or the entry pushed on to_traverse.
ChildOutcome(path, c, next_depth) ==
    LET child == Append(path, c)
        listed == FileTypeOf(KindOf(fsKind, c))
        canonical == IF rd.canonicalize THEN Canonicalize(fsKind, child) ELSE child
        shown == IF rd.absolute THEN canonical ELSE StripPrefix(canonical, rd.root_path)
        ft == IF rd.canonicalize
              THEN RefreshedType(fsKind, shown, rd.root_path, rd.stray, listed)
              ELSE listed
    IN  IF canonical = <<-1>>
        THEN [ok |-> FALSE, error |-> [kind |-> to_other_error("Failure"), at |-> child]]
        ELSE [ok |-> TRUE, entry |-> [path |-> shown, file_type |-> ft, depth |-> next_depth]]

RECURSIVE ChildOutcomes(_, _, _)
ChildOutcomes(path, names, next_depth) ==
    IF names = <<>> THEN <<>>
    ELSE <<ChildOutcome(path, Head(names), next_depth)>> \o ChildOutcomes(path, Tail(names), next_depth)

RECURSIVE Pushed(_)
Pushed(outs) ==
    IF outs = <<>> THEN <<>>
    ELSE (IF Head(outs).ok THEN <<Head(outs).entry>> ELSE <<>>) \o Pushed(Tail(outs))

RECURSIVE Failed(_)
Failed(outs) ==
    IF outs = <<>> THEN <<>>
    ELSE (IF Head(outs).ok THEN <<>> ELSE <<Head(outs).error>>) \o Failed(Tail(outs))

\* One turn of the loop: an entry is popped, recorded, and listed when it is
\* a directory within the depth asked for. The walk is followed to MaxDepth.
ReadDirStep ==
    /\ rd.pc = "walk"
    /\ LET n == Len(rd.to_traverse)
           entry == rd.to_traverse[n]
           rest == SubSeq(rd.to_traverse, 1, n - 1)
           is_root == entry.depth = 0
           next_depth == entry.depth + 1
           ft == entry.file_type
           path == IF IsAbsolute(entry.path) THEN entry.path ELSE rd.root_path \o entry.path
           entries == IF IncludeEntry(is_root, rd.include_root) THEN Append(rd.entries, entry) ELSE rd.entries
           visited == IF is_root THEN rd.visited ELSE rd.visited + 1
           stat == StatAbs(fsKind, path)
           is_dir == ft = "Dir" \/ (ft = "Symlink" /\ stat # -1 /\ KindOf(fsKind, stat) = "dir")
           dir == ListedDir(fsKind, path)
           outs == ChildOutcomes(path, SeqOfSet(Children(fsKind, dir)), next_depth)
           Continue(to_traverse, errors) ==
               rd' = [rd EXCEPT !.entries = entries, !.visited = visited, !.to_traverse = to_traverse,
                                !.errors = errors,
                                !.pc = IF to_traverse = <<>> THEN "sort" ELSE "walk"]
       IN  IF ft = "Symlink" /\ stat = -1
           THEN Continue(rest, Append(rd.errors, [kind |-> to_other_error("NoSuchFile"), at |-> entry.path]))
           ELSE IF ~Descend(is_dir, rd.depth, next_depth)
           THEN Continue(rest, rd.errors)
           ELSE IF dir = -1
           THEN IF ListErrorIsFatal(is_root)
                THEN rd' = RdFinished("Other")
                ELSE Continue(rest, Append(rd.errors, [kind |-> to_other_error("PermissionDenied"), at |-> entry.path]))
           ELSE /\ next_depth <= MaxDepth
                /\ Continue(rest \o Pushed(outs), rd.errors \o Failed(outs))
    /\ UNCHANGED unlistable
    /\ UNCHANGED notRd

\* ReadDirSort with the entries left in the order of the walk.
ReadDirSort_Skipped ==
    /\ rd.pc = "sort"
    /\ rd' = [rd EXCEPT !.pc = "done", !.res = "Ok"]
    /\ UNCHANGED unlistable
    /\ UNCHANGED notRd

\* The sort of the entries and Ok((entries, errors)).
ReadDirSort ==
    /\ rd.pc = "sort"
    /\ \E s \in SortUnstableByPath(rd.entries) : rd' = [rd EXCEPT !.entries = s, !.pc = "done", !.res = "Ok"]
    /\ UNCHANGED unlistable
    /\ UNCHANGED notRd

RdNext ==
    \/ \E n \in 0..MaxNodes, depth \in 0..MaxDepth - 2, absolute \in BOOLEAN, canonicalize \in BOOLEAN,
          include_root \in BOOLEAN, stray \in StrayKinds :
            ReadDirStart(AbsPath(n), depth, absolute, canonicalize, include_root, stray)
    \/ ReadDirStep
    \/ ReadDirSort

\* The remote trees read_dir is run on.
InitReadDir ==
    /\ ProcInit
    /\ RpcIdle
    /\ MkIdle
    /\ CapIdle
    /\ fsKind \in [Nodes -> {"none", "file", "dir", "link"}]
    /\ \A n \in Nodes : fsKind[n] # "none" => KindOf(fsKind, Parent(n)) = "dir"
    /\ Cardinality(Links(fsKind)) <= MaxLinks
    /\ \E t \in [Links(fsKind) -> 0..MaxNodes] :
        /\ \A n \in Links(fsKind) : t[n] # n
        /\ fsTarget = [n \in Nodes |-> IF n \in Links(fsKind) THEN t[n] ELSE 0]
    /\ denied = {}
    /\ rm = NoRemove
    /\ pre = fsKind
    /\ prev = NoRemove
    /\ ex = <<>>
    /\ opsDone = 0
    /\ unlistable \in SUBSET ({0} \cup {n \in Nodes : fsKind[n] = "dir"})
    /\ Cardinality(unlistable) <= MaxUnlistable
    /\ rd = NoReadDir
    /\ SiIdle
    /\ MgrIdle
    /\ FileIdle
    /\ LockIdle
    /\ CliIdle

SpecReadDir == InitReadDir /\ [][RdNext]_vars

(***************************************************************************)
(* create_dir. Paths are absolute, written as for read_dir.                *)
(***************************************************************************)
\* Path::parent(): the root has none.
HasParent(p) == Len(p) > 1
PathParent(p) == SubSeq(p, 1, Len(p) - 1)

\* The node slot the last component of an absolute path names.
Slot(p) == p[Len(p)]

MkdirFaults == {"none", "Failure"}

\* sftp.create_dir(p, 0o755): "Ok" or what makes it fail.
MkdirResult(k, p, fault) ==
    LET n == Slot(p) IN
    IF fault # "none" THEN fault
    ELSE IF KindOf(k, n) # "none" THEN "Exists"
    ELSE IF KindOf(k, Parent(n)) = "none" THEN "NoSuchFile"
    ELSE IF KindOf(k, Parent(n)) # "dir" THEN "NotADirectory"
    ELSE IF Parent(n) \in unwritable THEN "PermissionDenied"
    ELSE "Ok"

Attempt(phase, p, r) == [phase |-> phase, path |-> p, result |-> r]

\* create_dir up to the first mkdir.
CreateDirStart(path, all) ==
    /\ mk.pc = "idle"
    /\ mk' = [NoCreateDir EXCEPT !.pc = IF all THEN "up" ELSE "once", !.path = path, !.all = all,
                                 !.cur_path = path]
    /\ UNCHANGED <<unwritable, fsVars>>
    /\ UNCHANGED notMk

\* all = false: mkdir(&sftp, path).await?
MkdirOnce(fault) ==
    /\ mk.pc = "once"
    /\ LET r == MkdirResult(fsKind, mk.path, fault) IN
        /\ fsKind' = IF r = "Ok" THEN [fsKind EXCEPT ![Slot(mk.path)] = "dir"] ELSE fsKind
        /\ mk' = [mk EXCEPT !.pc = "done", !.log = Append(@, Attempt("once", mk.path, r)),
                            !.res = IF r = "Ok" THEN "Ok" ELSE to_other_error(r),
                            !.err = IF r = "Ok" THEN NoError ELSE [reason |-> r, path |-> mk.path]]
    /\ UNCHANGED <<fsTarget, denied, rm, pre, prev, ex, opsDone, unwritable>>
    /\ UNCHANGED notMk

\* One turn of the loop that walks upward: mkdir of cur_path; when it fails
\* the path is kept and the walk moves to the parent, or ends at the
\* component that has none.
MkdirUp(fault) ==
    /\ mk.pc = "up"
    /\ LET r == MkdirResult(fsKind, mk.cur_path, fault)
           x == [reason |-> r, path |-> mk.cur_path]
           log == Append(mk.log, Attempt("up", mk.cur_path, r))
       IN  IF r = "Ok"
           THEN /\ fsKind' = [fsKind EXCEPT ![Slot(mk.cur_path)] = "dir"]
                /\ mk' = [mk EXCEPT !.pc = "replay", !.log = log]
           ELSE /\ UNCHANGED fsKind
                /\ IF HasParent(mk.cur_path)
                   THEN mk' = [mk EXCEPT !.failed_paths = Append(@, mk.cur_path),
                                         !.cur_path = PathParent(mk.cur_path),
                                         !.first_err = IF @ = NoError THEN x ELSE @,
                                         !.log = log]
                   ELSE mk' = [mk EXCEPT !.pc = "done", !.failed_paths = Append(@, mk.cur_path),
                                         !.log = log, !.res = "PermissionDenied",
                                         !.err = IF mk.first_err = NoError THEN x ELSE mk.first_err]
    /\ UNCHANGED <<fsTarget, denied, rm, pre, prev, ex, opsDone, unwritable>>
    /\ UNCHANGED notMk

\* PopFailed taking the path that failed first.
PopFailed_Oldest(failed_paths) == 1

\* failed_paths.pop(): the index of the path taken.
PopFailed(failed_paths) == Len(failed_paths)

\* One turn of the loop that creates the paths that failed, or its end.
MkdirReplay(fault) ==
    /\ mk.pc = "replay"
    /\ IF mk.failed_paths = <<>>
       THEN /\ fault = "none"
            /\ mk' = [mk EXCEPT !.pc = "done", !.res = "Ok"]
            /\ UNCHANGED fsKind
       ELSE LET i == PopFailed(mk.failed_paths)
                path == mk.failed_paths[i]
                r == MkdirResult(fsKind, path, fault)
                log == Append(mk.log, Attempt("replay", path, r))
            IN  IF r = "Ok"
                THEN /\ fsKind' = [fsKind EXCEPT ![Slot(path)] = "dir"]
                     /\ mk' = [mk EXCEPT !.failed_paths = RemoveAt(@, i), !.log = log]
                ELSE /\ UNCHANGED fsKind
                     /\ mk' = [mk EXCEPT !.pc = "done", !.failed_paths = RemoveAt(@, i), !.log = log,
                                         !.res = to_other_error(r),
                                         !.err = [reason |-> r, path |-> path]]
    /\ UNCHANGED <<fsTarget, denied, rm, pre, prev, ex, opsDone, unwritable>>
    /\ UNCHANGED notMk

MkNext ==
    \/ \E n \in 0..MaxNodes, all \in BOOLEAN : CreateDirStart(AbsPath(n), all)
    \/ \E fault \in MkdirFaults : MkdirOnce(fault)
    \/ \E fault \in MkdirFaults : MkdirUp(fault)
    \/ \E fault \in MkdirFaults : MkdirReplay(fault)

\* The remote trees create_dir is run on: files and directories.
InitCreateDir ==
    /\ ProcInit
    /\ RpcIdle
    /\ RdIdle
    /\ CapIdle
    /\ fsKind \in [Nodes -> {"none", "file", "dir"}]
    /\ \A n \in Nodes : fsKind[n] # "none" => KindOf(fsKind, Parent(n)) = "dir"
    /\ fsTarget = [n \in Nodes |-> 0]
    /\ denied = {}
    /\ rm = NoRemove
    /\ pre = fsKind
    /\ prev = NoRemove
    /\ ex = <<>>
    /\ opsDone = 0
    /\ unwritable \in SUBSET ({0} \cup {n \in Nodes : fsKind[n] = "dir"})
    /\ Cardinality(unwritable) <= MaxUnwritable
    /\ mk = NoCreateDir
    /\ SiIdle
    /\ MgrIdle
    /\ FileIdle
    /\ LockIdle
    /\ CliIdle

SpecCreateDir == InitCreateDir /\ [][MkNext]_vars

\* The handler is a task the executor keeps running.
MkFairness ==
    /\ WF_vars(\E fault \in MkdirFaults : MkdirOnce(fault))
    /\ WF_vars(\E fault \in MkdirFaults : MkdirUp(fault))
    /\ WF_vars(\E fault \in MkdirFaults : MkdirReplay(fault))

SpecCreateDirFair == SpecCreateDir /\ MkFairness

(***************************************************************************)
(* set_permissions and version.                                            *)
(***************************************************************************)
\* Capabilities::all(): every kind of capability of the protocol.
AllCapabilities ==
    {"Exec", "FileRead", "FileWrite", "DirRead", "DirCreate", "Remove", "Exists", "Metadata",
     "SetPermissions", "Search", "CancelSearch", "SystemInfo", "Version"}

\* Capabilities::take(kind)
Take(capabilities, kind) == capabilities \ {kind}

\* SetPermissions with the early return gone: the permissions are applied.
SetPermissions_Applied(path, mode, recursive) ==
    /\ fsMode' = [n \in Nodes |->
                    IF n = Slot(path) \/ (recursive /\ IsStrictPrefix(PathOf(Slot(path)), PathOf(n)))
                    THEN mode ELSE fsMode[n]]
    /\ sp' = <<path, mode, recursive, "Ok">>
    /\ sp' # sp
    /\ UNCHANGED ver
    /\ UNCHANGED notCap

\* set_permissions: the error returned before anything is asked of the remote.
SetPermissions(path, mode, recursive) ==
    /\ sp' = <<path, mode, recursive, "Unsupported">>
    /\ sp' # sp
    /\ UNCHANGED <<fsMode, ver>>
    /\ UNCHANGED notCap

\* version: every capability but the three taken out.
Version ==
    /\ ver' = Take(Take(Take(AllCapabilities, "Search"), "CancelSearch"), "SetPermissions")
    /\ ver' # ver
    /\ UNCHANGED <<fsMode, sp>>
    /\ UNCHANGED notCap

CapNext ==
    \/ \E n \in Nodes, mode \in Modes, recursive \in BOOLEAN : SetPermissions(AbsPath(n), mode, recursive)
    \/ Version

\* A remote tree with every node present, in any permissions.
InitCaps ==
    /\ ProcInit
    /\ RpcIdle
    /\ RdIdle
    /\ MkIdle
    /\ fsKind = [n \in Nodes |-> IF 2 * n <= MaxNodes THEN "dir" ELSE "file"]
    /\ fsTarget = [n \in Nodes |-> 0]
    /\ denied = {}
    /\ rm = NoRemove
    /\ pre = fsKind
    /\ prev = NoRemove
    /\ ex = <<>>
    /\ opsDone = 0
    /\ fsMode \in [Nodes -> Modes]
    /\ sp = <<>>
    /\ ver = {}
    /\ SiIdle
    /\ MgrIdle
    /\ FileIdle
    /\ LockIdle
    /\ CliIdle

SpecCaps == InitCaps /\ [][CapNext]_vars

(***************************************************************************)
(* is_windows and system_info. The cells the answers are kept in are       *)
(* statics of the two functions: the process has one of each, whatever the *)
(* number of SshDistantApi values and sessions.                            *)
(***************************************************************************)
RemoteHosts ==
    [is_windows : BOOLEAN, current_dir : {"/home/a", "/C:/Users/b"}, username : {"a", "b"},
     shell : {"/bin/sh", "cmd.exe"}]

SiFaults == {"none", "is_windows", "current_dir", "username", "shell"}

\* OnceCell::get_or_try_init: a filled cell is returned without running the
\* future; an empty one is filled when the future succeeds and left empty
\* when it fails.
GetOrTryInit(cell, queried, fails) ==
    IF cell # <<>> THEN [ok |-> TRUE, cell |-> cell]
    ELSE IF fails THEN [ok |-> FALSE, cell |-> <<>>]
    ELSE [ok |-> TRUE, cell |-> <<queried>>]

\* utils::convert_to_windows_path_string: "/C:/..." becomes "C:\...", a path
\* of any other form gives None (<<>>).
convert_to_windows_path_string(s) == IF s = "/C:/Users/b" THEN <<"C:\\Users\\b">> ELSE <<>>

\* unwrap_or(current_dir) of the converted path.
CurrentDirOf(s) ==
    IF convert_to_windows_path_string(s) = <<>> THEN s ELSE convert_to_windows_path_string(s)[1]

\* utils::is_windows, utils::canonicalize(sftp, "."), utils::query_username
\* and utils::query_shell ask the host behind the session of api a.
QueryIsWindows(a) == remote[a].is_windows
QueryCurrentDir(a) == remote[a].current_dir
QueryUsername(a, is_windows) == remote[a].username
QueryShell(a, is_windows) == remote[a].shell

\* The SystemInfo built from the four values.
SystemInfoOf(is_windows, current_dir, username, shell) ==
    [res |-> "Ok",
     family |-> IF is_windows THEN "windows" ELSE "unix",
     os |-> IF is_windows THEN "windows" ELSE "",
     current_dir |-> current_dir,
     main_separator |-> IF is_windows THEN "\\" ELSE "/",
     username |-> username,
     shell |-> shell]

SiErr == [NoSystemInfo EXCEPT !.res = "Err"]

\* system_info on api a; fault names the remote query that fails, should it
\* be made.
SystemInfo(a, fault) ==
    LET w == GetOrTryInit(IS_WINDOWS, QueryIsWindows(a), fault = "is_windows")
        d == GetOrTryInit(CURRENT_DIR, CurrentDirOf(QueryCurrentDir(a)), fault = "current_dir")
        u == GetOrTryInit(USERNAME, QueryUsername(a, w.cell[1]), fault = "username")
        s == GetOrTryInit(SHELL, QueryShell(a, w.cell[1]), fault = "shell")
    IN  /\ IS_WINDOWS' = w.cell
        /\ CURRENT_DIR' = IF w.ok THEN d.cell ELSE CURRENT_DIR
        /\ USERNAME' = IF w.ok /\ d.ok THEN u.cell ELSE USERNAME
        /\ SHELL' = IF w.ok /\ d.ok /\ u.ok THEN s.cell ELSE SHELL
        /\ si' = [si EXCEPT ![a] =
                    IF w.ok /\ d.ok /\ u.ok /\ s.ok
                    THEN SystemInfoOf(w.cell[1], d.cell[1], u.cell[1], s.cell[1])
                    ELSE SiErr]
        /\ UNCHANGED remote
        /\ UNCHANGED notSi

SiNext == \E a \in Apis, fault \in SiFaults : SystemInfo(a, fault)

\* Two sessions in one process, each to a host of its own.
InitSystemInfo ==
    /\ ProcInit
    /\ FsIdle
    /\ RpcIdle
    /\ RdIdle
    /\ MkIdle
    /\ CapIdle
    /\ MgrIdle
    /\ FileIdle
    /\ LockIdle
    /\ CliIdle
    /\ remote \in [Apis -> RemoteHosts]
    /\ IS_WINDOWS = <<>>
    /\ CURRENT_DIR = <<>>
    /\ USERNAME = <<>>
    /\ SHELL = <<>>
    /\ si = [a \in Apis |-> NoSystemInfo]

SpecSystemInfo == InitSystemInfo /\ [][SiNext]_vars

(***************************************************************************)
(* The manager client: launch, connect, capabilities, info, kill and list. *)
(* A response is a record of one shape for every variant: Authenticate     *)
(* carries the auth id, the kind of msg and its content (methods,          *)
(* questions or text); the other variants carry their payload as content.  *)
(***************************************************************************)
MgrOps == {"launch", "connect", "capabilities", "info", "kill", "list"}

\* The operations that open a mailbox with mail(); the others use send().
MultiOps == {"launch", "connect"}

AuthKinds == {"Initialization", "StartMethod", "Challenge", "Verification", "Info", "Error", "Finished"}

Authenticate(id, kind, content, fatal) ==
    [variant |-> "Authenticate", id |-> id, kind |-> kind, content |-> content, fatal |-> fatal]

Plain(variant, content) ==
    [variant |-> variant, id |-> 0, kind |-> "", content |-> content, fatal |-> FALSE]

\* Every response the peer of the transport can send. The messages the
\* handler is called for come with each auth id and each content.
ManagerResponses ==
    {Authenticate(i, k, c, FALSE) : i \in AuthIds, k \in {"Initialization", "Challenge", "Verification"},
                                    c \in Payloads}
    \cup {Authenticate(1, k, 1, FALSE) : k \in {"StartMethod", "Info", "Error"}}
    \cup {Authenticate(1, "Error", c, TRUE) : c \in Payloads}
    \cup {Authenticate(1, "Finished", 0, FALSE)}
    \cup {Plain(v, c) : v \in {"Connected", "Launched", "Info", "List", "Capabilities", "Error"}, c \in Payloads}
    \cup {Plain("Killed", 0)}

SuccessVariant(op) ==
    CASE op = "launch" -> "Launched"
      [] op = "connect" -> "Connected"
      [] op = "capabilities" -> "Capabilities"
      [] op = "info" -> "Info"
      [] op = "kill" -> "Killed"
      [] op = "list" -> "List"

Err(kind, value) == [ok |-> FALSE, kind |-> kind, value |-> value]

\* The error of mail(), send() and fire() once the outbound queue is closed.
ChannelClosed == Err("BrokenPipe", 0)

\* The error an AuthHandler returns, passed on by `?`.
HandlerError == Err("Handler", 0)

\* Ok(id), Ok(destination), Ok(info), Ok(list), Ok(supported), Ok(()) with a
\* payload other than the one received.
ReturnOk_Default(resp) == [ok |-> TRUE, kind |-> "Ok", value |-> 0]

\* Ok(id), Ok(destination), Ok(info), Ok(list), Ok(supported), Ok(()).
ReturnOk(resp) == [ok |-> TRUE, kind |-> "Ok", value |-> resp.content]

\* The error of an Error response without its description.
ReturnError_NoDescription(resp) == Err("Other", 0)

\* Err(io::Error::new(io::ErrorKind::Other, description)).
ReturnError(resp) == Err("Other", resp.content)

\* An unexpected variant taken for the success of the operation.
ReturnUnexpected_AsOk(resp) == [ok |-> TRUE, kind |-> "Ok", value |-> resp.content]

\* Err(io::Error::new(io::ErrorKind::InvalidData, "Got unexpected response")).
ReturnUnexpected(resp) == Err("InvalidData", 0)

\* The arms of the match on res.payload that return.
Outcome(op, resp) ==
    IF resp.variant = SuccessVariant(op) THEN ReturnOk(resp)
    ELSE IF resp.variant = "Error" THEN ReturnError(resp)
    ELSE ReturnUnexpected(resp)

\* A reply to every message but Finished.
NeedsReply_AllButFinished(kind) == kind # "Finished"

\* The Authentication messages whose arm calls the handler and fires its
\* answer.
NeedsReply(kind) == kind \in {"Initialization", "Challenge", "Verification"}

\* No error ends the call.
is_fatal_Never(x) == FALSE

\* x.is_fatal() of an Authentication::Error.
is_fatal(x) == x.fatal

\* x.into_io_permission_denied().
into_io_permission_denied(x) == Err("PermissionDenied", x.content)

\* A request that carries an answer of its own.
AuthenticateRequest_OwnAnswer(id, kind, answer) == [id |-> id, kind |-> kind, answer |-> 1]

\* ManagerRequest::Authenticate { id, msg } with msg the
\* AuthenticationResponse of the prompt's kind around the handler's answer.
AuthenticateRequest(id, kind, answer) == [id |-> id, kind |-> kind, answer |-> answer]

\* What the handler was handed and what it returned.
HandlerCall(kind, content, ok, answer) == [kind |-> kind, content |-> content, ok |-> ok, answer |-> answer]

\* A mailbox that outlives the call.
Dropped_Never(call) == FALSE

\* The mailbox is a local of the call: it is there while the call waits.
Dropped(call) == call.pc # "wait"

\* The reader task finds a sink for the response: the mailbox of mail(), or
\* the slot of send() while it is empty.
Delivered(call, queued) == ~Dropped(call) /\ (call.op \in MultiOps \/ queued = <<>>)

ResponsesSent == Len(mc.taken) + Len(mbox) + late

MgrDone(call, res) == [call EXCEPT !.pc = "done", !.res = res]

\* The handler's error dropped: the loop goes on.
Propagate_Swallowed(call, err) == call

\* handler.on_...(x).await?: the handler's error is the result of the call.
Propagate(call, err) == MgrDone(call, err)

\* The call is made: mail() or send() puts the request on the outbound
\* queue, which fails once the transport is lost.
MgrCall(op) ==
    /\ mc.pc \in {"idle", "done"}
    /\ mbox' = <<>>
    /\ late' = 0
    /\ mc' = IF mgrUp
             THEN [NoMgrCall EXCEPT !.pc = "wait", !.op = op]
             ELSE [NoMgrCall EXCEPT !.pc = "done", !.op = op, !.res = ChannelClosed]
    /\ UNCHANGED mgrUp
    /\ UNCHANGED notMgr

\* One turn of `while let Some(res) = mailbox.next().await`, or the one
\* response send() waits for: the whole arm of the match, the handler's call
\* and the fire of its answer included.
MgrTake(answer, handler_ok) ==
    /\ mc.pc = "wait"
    /\ mbox # <<>>
    /\ LET res == Head(mbox)
           call == [mc EXCEPT !.taken = Append(mc.taken, res)]
           asked == [call EXCEPT !.handled = Append(mc.handled,
                        HandlerCall(res.kind, res.content, handler_ok, IF handler_ok THEN answer ELSE 0))]
           next ==
               IF res.variant = "Authenticate" /\ mc.op \in MultiOps
               THEN IF NeedsReply(res.kind)
                    THEN IF ~handler_ok THEN Propagate(asked, HandlerError)
                         ELSE IF ~mgrUp THEN MgrDone(asked, ChannelClosed)
                         ELSE [asked EXCEPT !.fired = Append(mc.fired, AuthenticateRequest(res.id, res.kind, answer))]
                    ELSE IF res.kind = "Error" /\ is_fatal(res)
                         THEN MgrDone(call, into_io_permission_denied(res))
                         ELSE call
               ELSE MgrDone(call, Outcome(mc.op, res))
       IN  /\ mc' = next
           /\ mbox' = IF Dropped(next) THEN <<>> ELSE Tail(mbox)
           /\ late' = IF Dropped(next) THEN late + Len(Tail(mbox)) ELSE late
    /\ UNCHANGED mgrUp
    /\ UNCHANGED notMgr

\* mailbox.next() gives None: the transport is lost and nothing is queued.
MgrEof ==
    /\ mc.pc = "wait"
    /\ mbox = <<>>
    /\ ~mgrUp
    /\ mc' = MgrDone(mc, Err("UnexpectedEof", 0))
    /\ UNCHANGED <<mgrUp, mbox, late>>
    /\ UNCHANGED notMgr

\* The manager sends a response to the request of the call; the reader task
\* delivers it to the mailbox when there is one.
ManagerSend(resp) ==
    /\ mgrUp
    /\ mc.pc # "idle"
    /\ ResponsesSent < MaxResponses
    /\ IF Delivered(mc, mbox)
       THEN mbox' = Append(mbox, resp) /\ UNCHANGED late
       ELSE late' = late + 1 /\ UNCHANGED mbox
    /\ UNCHANGED <<mgrUp, mc>>
    /\ UNCHANGED notMgr

MgrTransportLoss ==
    /\ mgrUp
    /\ mgrUp' = FALSE
    /\ UNCHANGED <<mbox, late, mc>>
    /\ UNCHANGED notMgr

MgrNext ==
    \/ \E op \in MgrOps : MgrCall(op)
    \/ \E answer \in Payloads, handler_ok \in BOOLEAN : MgrTake(answer, handler_ok)
    \/ MgrEof
    \/ \E resp \in ManagerResponses : ManagerSend(resp)
    \/ MgrTransportLoss

SpecMgr == Init /\ [][MgrNext]_vars

(***************************************************************************)
(* read_file and write_file. A file is the sequence of its bytes.          *)
(***************************************************************************)
\* "A", two continuation bytes, the lead bytes of a two-byte and of a
\* three-byte character, and a byte no UTF-8 text contains.
Bytes == {65, 130, 172, 195, 226, 255}

ByteSeqs == UNION {[1..n -> Bytes] : n \in 0..MaxFileLen}

Invalid == <<-1>>

\* The number of bytes of the character a byte begins, 0 when no character
\* begins with it.
Utf8Width(b) ==
    IF b < 128 THEN 1
    ELSE IF b >= 194 /\ b <= 223 THEN 2
    ELSE IF b >= 224 /\ b <= 239 THEN 3
    ELSE IF b >= 240 /\ b <= 244 THEN 4
    ELSE 0

Continuation(b) == b >= 128 /\ b <= 191

\* The second byte a lead byte admits: no overlong form, no surrogate,
\* nothing above U+10FFFF.
SecondByteOk(lead, b) ==
    CASE lead = 224 -> b >= 160 /\ b <= 191
      [] lead = 237 -> b >= 128 /\ b <= 159
      [] lead = 240 -> b >= 144 /\ b <= 191
      [] lead = 244 -> b >= 128 /\ b <= 143
      [] OTHER -> Continuation(b)

CodePoint(b, w) ==
    CASE w = 1 -> b[1]
      [] w = 2 -> (b[1] - 192) * 64 + (b[2] - 128)
      [] w = 3 -> (b[1] - 224) * 4096 + (b[2] - 128) * 64 + (b[3] - 128)
      [] w = 4 -> (b[1] - 240) * 262144 + (b[2] - 128) * 4096 + (b[3] - 128) * 64 + (b[4] - 128)

\* read_to_string: the bytes read as UTF-8 text, a sequence of characters;
\* Invalid when they are not UTF-8.
RECURSIVE read_to_string(_)
read_to_string(b) ==
    IF b = <<>> THEN <<>>
    ELSE LET w == Utf8Width(b[1])
         IN  IF \/ w = 0
                \/ Len(b) < w
                \/ (w >= 2 /\ ~SecondByteOk(b[1], b[2]))
                \/ (w >= 3 /\ ~Continuation(b[3]))
                \/ (w = 4 /\ ~Continuation(b[4]))
             THEN Invalid
             ELSE LET rest == read_to_string(SubSeq(b, w + 1, Len(b)))
                  IN  IF rest = Invalid THEN Invalid ELSE <<CodePoint(b, w)>> \o rest

EncodeChar(c) ==
    IF c < 128 THEN <<c>>
    ELSE IF c < 2048 THEN <<192 + (c \div 64), 128 + (c % 64)>>
    ELSE IF c < 65536 THEN <<224 + (c \div 4096), 128 + ((c \div 64) % 64), 128 + (c % 64)>>
    ELSE <<240 + (c \div 262144), 128 + ((c \div 4096) % 64), 128 + ((c \div 64) % 64), 128 + (c % 64)>>

\* String::into_bytes: the UTF-8 bytes of the text.
RECURSIVE into_bytes(_)
into_bytes(s) == IF s = <<>> THEN <<>> ELSE EncodeChar(Head(s)) \o into_bytes(Tail(s))

WriteFaults == {"none", "create", "write"}
ReadFaults == {"none", "open", "read"}

\* write_file: sftp.create(path) opens the file for writing, creating or
\* truncating it; write_all then writes data. A write that fails leaves the
\* first written bytes of data in the file.
WriteFile(path, data, fault, written) ==
    /\ fault = "write" => written < Len(data)
    /\ fault # "write" => written = 0
    /\ fileData' = [fileData EXCEPT ![path] =
                       IF fault = "create" THEN @
                       ELSE IF fault = "write" THEN SubSeq(data, 1, written)
                       ELSE data]
    /\ wf' = [wf EXCEPT ![path] =
                 [res |-> IF fault = "create" THEN to_other_error(fault)
                          ELSE IF fault = "write" THEN "Io" ELSE "Ok",
                  data |-> IF fault = "none" THEN data ELSE <<>>]]
    /\ rf' = NoRead
    /\ UNCHANGED notFile

\* read_file: sftp.open(path), read_to_string into a String, into_bytes.
ReadFile(path, fault) ==
    /\ rf' = IF fault = "open" \/ fileData[path] = Absent
             THEN [res |-> to_other_error(fault), path |-> path, contents |-> <<>>, fault |-> fault]
             ELSE IF fault = "read"
             THEN [res |-> "Io", path |-> path, contents |-> <<>>, fault |-> fault]
             ELSE IF read_to_string(fileData[path]) = Invalid
             THEN [res |-> "InvalidData", path |-> path, contents |-> <<>>, fault |-> fault]
             ELSE [res |-> "Ok", path |-> path, contents |-> into_bytes(read_to_string(fileData[path])),
                   fault |-> fault]
    /\ rf' # rf
    /\ UNCHANGED <<fileData, wf>>
    /\ UNCHANGED notFile

FileNext ==
    \/ \E path \in FilePaths, data \in ByteSeqs, fault \in WriteFaults, written \in 0..MaxFileLen :
          WriteFile(path, data, fault, written)
    \/ \E path \in FilePaths, fault \in ReadFaults : ReadFile(path, fault)

SpecFile == Init /\ [][FileNext]_vars

(***************************************************************************)
(* The two process registries with their locks, one acquisition at a time. *)
(* Both are tokio RwLocks: waiters are served in the order of their        *)
(* requests, so a reader that arrives behind a waiting writer waits too.   *)
(***************************************************************************)

Sp(p) == <<"spawn", p>>
Cl(p) == <<"cleanup", p>>
Ca(k) == <<"call", k>>

\* read() / write() called: the task joins the lock's queue.
Requested(l, t, mode) == [l EXCEPT !.waiting = Append(@, [task |-> t, mode |-> mode])]

\* The request of t is the oldest one and nothing held conflicts with it.
Grantable(l, t) ==
    /\ l.waiting # <<>>
    /\ Head(l.waiting).task = t
    /\ l.writer = NoTask
    /\ Head(l.waiting).mode = "write" => l.readers = {}

\* The await of read() / write() returns the guard.
Granted(l, t) ==
    [readers |-> IF Head(l.waiting).mode = "read" THEN l.readers \cup {t} ELSE l.readers,
     writer |-> IF Head(l.waiting).mode = "write" THEN t ELSE NoTask,
     waiting |-> Tail(l.waiting)]

\* The guard of t is dropped.
Released(l, t) == [l EXCEPT !.readers = @ \ {t}, !.writer = IF @ = t THEN NoTask ELSE @]

\* The guard of cleanup's statement on the global registry outlives it.
StatementEnd_GuardKept(l, t) == l

\* processes.write().await.remove(&id): the guard is a temporary of the
\* statement and is dropped at its end.
StatementEnd(l, t) == Released(l, t)

Holds(l, t) == t \in l.readers \/ l.writer = t
Waits(l, t) == \E i \in 1..Len(l.waiting) : l.waiting[i].task = t

\* The receiving end of queue o of process p is still held by its worker.
RxOpen(p, o) == workerT[p].rx

\* The next id spawn_simple / spawn_pty hands out.
LockNextProcId == CHOOSE p \in ProcIds : spawnT[p] = "none" /\ \A q \in ProcIds : q < p => spawnT[q] # "none"

\* proc_spawn up to the call of write() on the global registry: the worker
\* runs and owns the cleanup continuation.
LockProcSpawn(c) ==
    /\ lkAlive[c]
    /\ \E p \in ProcIds : spawnT[p] = "none"
    /\ LET p == LockNextProcId IN
        /\ spawnT' = [spawnT EXCEPT ![p] = "wait"]
        /\ workerT' = [workerT EXCEPT ![p] = [NoWorker EXCEPT !.st = "running", !.conn = c, !.rx = TRUE]]
        /\ gLock' = Requested(gLock, Sp(p), "write")
    /\ UNCHANGED <<gReg, lReg, lLock, lkAlive, cleanupT, callT>>
    /\ UNCHANGED notLock

\* proc_spawn: write().await returns the guard, insert(id, Process), the guard
\* is dropped at the end of the statement, Ok(id).
LockProcSpawnInsert(p) ==
    /\ spawnT[p] = "wait"
    /\ Grantable(gLock, Sp(p))
    /\ gReg' = gReg \cup {p}
    /\ gLock' = Released(Granted(gLock, Sp(p)), Sp(p))
    /\ spawnT' = [spawnT EXCEPT ![p] = "returned"]
    /\ UNCHANGED <<lReg, lLock, lkAlive, workerT, cleanupT, callT>>
    /\ UNCHANGED notLock

\* The worker takes one message from one of its queues; a kill message makes
\* it terminate the process.
LockWorkerRecv(p, o) ==
    /\ workerT[p].st = "running"
    /\ RxOpen(p, o)
    /\ workerT[p].q[o] # <<>>
    /\ workerT' = [workerT EXCEPT ![p].q[o] = Tail(@),
                                  ![p].st = IF o = "kill" THEN "killed" ELSE @]
    /\ callT' = [callT EXCEPT ![Head(workerT[p].q[o])].delivered = TRUE]
    /\ UNCHANGED <<gReg, lReg, gLock, lLock, lkAlive, spawnT, cleanupT>>
    /\ UNCHANGED notLock

\* The process ends (by itself or killed): the worker stops receiving and
\* awaits the cleanup continuation, which calls write() on the global
\* registry. It has let go of the receiving ends by then (early) or keeps them
\* until it ends.
LockProcessExit(p, early) ==
    /\ workerT[p].st \in {"running", "killed"}
    /\ workerT' = [workerT EXCEPT ![p].st = "exited",
                                  ![p].rx = ~early,
                                  ![p].q = IF early THEN [o \in ProcOps |-> <<>>] ELSE @]
    /\ cleanupT' = [cleanupT EXCEPT ![p] = "g_wait"]
    /\ gLock' = Requested(gLock, Cl(p), "write")
    /\ UNCHANGED <<gReg, lReg, lLock, lkAlive, spawnT, callT>>
    /\ UNCHANGED notLock

\* The worker has ended: its receiving ends are gone with what was queued.
Ended(w) == [w EXCEPT !.st = "ended", !.rx = FALSE, !.q = [o \in ProcOps |-> <<>>]]

\* cleanup: write().await on the global registry returns the guard,
\* remove(&id), the guard is dropped at the end of the statement; then, if
\* the connection's registry still exists, write() on it.
LockCleanupGlobal(p) ==
    /\ cleanupT[p] = "g_wait"
    /\ Grantable(gLock, Cl(p))
    /\ gReg' = gReg \ {p}
    /\ gLock' = StatementEnd(Granted(gLock, Cl(p)), Cl(p))
    /\ LET c == workerT[p].conn IN
        IF lkAlive[c]
        THEN /\ lLock' = [lLock EXCEPT ![c] = Requested(@, Cl(p), "write")]
             /\ cleanupT' = [cleanupT EXCEPT ![p] = "l_wait"]
             /\ UNCHANGED workerT
        ELSE /\ cleanupT' = [cleanupT EXCEPT ![p] = "done"]
             /\ workerT' = [workerT EXCEPT ![p] = Ended(@)]
             /\ UNCHANGED lLock
    /\ UNCHANGED <<lReg, lkAlive, spawnT, callT>>
    /\ UNCHANGED notLock

\* cleanup: write().await on the connection's registry returns the guard,
\* remove(&id), the guard is dropped; the worker ends with its continuation.
LockCleanupLocal(p) ==
    /\ cleanupT[p] = "l_wait"
    /\ Grantable(lLock[workerT[p].conn], Cl(p))
    /\ lReg' = [lReg EXCEPT ![workerT[p].conn] = @ \ {p}]
    /\ lLock' = [lLock EXCEPT ![workerT[p].conn] = Released(Granted(@, Cl(p)), Cl(p))]
    /\ cleanupT' = [cleanupT EXCEPT ![p] = "done"]
    /\ workerT' = [workerT EXCEPT ![p] = Ended(@)]
    /\ UNCHANGED <<gReg, gLock, lkAlive, spawnT, callT>>
    /\ UNCHANGED notLock

\* proc_kill / proc_stdin / proc_resize_pty on connection c up to the call of
\* read() on the global registry.
LockProcCall(k, c, o, id) ==
    /\ callT[k].pc = "idle"
    /\ \A j \in CallIds : j < k => callT[j].pc # "idle"
    /\ lkAlive[c]
    /\ callT' = [callT EXCEPT ![k] = [NoCall EXCEPT !.pc = "wait", !.op = o, !.id = id, !.conn = c]]
    /\ gLock' = Requested(gLock, Ca(k), "read")
    /\ UNCHANGED <<gReg, lReg, lLock, lkAlive, spawnT, workerT, cleanupT>>
    /\ UNCHANGED notLock

\* self.processes.read().await.get(&id): the registry of the whole api,
\* whatever the connection of the call.
Lookup(reg, c, id) == id \in reg

\* A call that has returned: its result, and whether its message went to the
\* queue of a process spawned on another connection.
Returned(res, foreign) == [NoCall EXCEPT !.pc = "done", !.res = res, !.foreign = foreign]

\* read().await returns the guard and get(&id) is answered: a miss drops the
\* guard and falls through to the BrokenPipe error, a hit goes on to the send
\* with the guard held.
LockProcCallLookup(k) ==
    /\ callT[k].pc = "wait"
    /\ Grantable(gLock, Ca(k))
    /\ IF Lookup(gReg, callT[k].conn, callT[k].id)
       THEN /\ callT' = [callT EXCEPT ![k].pc = "sending"]
            /\ gLock' = Granted(gLock, Ca(k))
       ELSE /\ callT' = [callT EXCEPT ![k] = Returned("BrokenPipe", FALSE)]
            /\ gLock' = Released(Granted(gLock, Ca(k)), Ca(k))
    /\ UNCHANGED <<gReg, lReg, lLock, lkAlive, spawnT, workerT, cleanupT>>
    /\ UNCHANGED notLock

\* The send on the process's queue: an error when the receiving end is gone,
\* otherwise it waits for capacity; the guard is dropped after it.
LockProcCallSend(k) ==
    /\ callT[k].pc = "sending"
    /\ LET p == callT[k].id
           o == callT[k].op IN
        IF ~RxOpen(p, o)
        THEN /\ callT' = [callT EXCEPT ![k] = Returned("BrokenPipe", FALSE)]
             /\ UNCHANGED workerT
        ELSE /\ Len(workerT[p].q[o]) < QueueCap
             /\ workerT' = [workerT EXCEPT ![p].q[o] = Append(@, k)]
             /\ callT' = [callT EXCEPT ![k] = Returned("Ok", workerT[p].conn # callT[k].conn)]
    /\ gLock' = Released(gLock, Ca(k))
    /\ UNCHANGED <<gReg, lReg, lLock, lkAlive, spawnT, cleanupT>>
    /\ UNCHANGED notLock

\* The connection ends: its ConnectionState is dropped.
LockConnTerminate(c) ==
    /\ lkAlive[c]
    /\ lkAlive' = [lkAlive EXCEPT ![c] = FALSE]
    /\ UNCHANGED <<gReg, lReg, gLock, lLock, spawnT, workerT, cleanupT, callT>>
    /\ UNCHANGED notLock

LockNext ==
    \/ \E c \in LockConns : LockProcSpawn(c)
    \/ \E p \in ProcIds : LockProcSpawnInsert(p)
    \/ \E p \in ProcIds, o \in ProcOps : LockWorkerRecv(p, o)
    \/ \E p \in ProcIds, early \in BOOLEAN : LockProcessExit(p, early)
    \/ \E p \in ProcIds : LockCleanupGlobal(p)
    \/ \E p \in ProcIds : LockCleanupLocal(p)
    \/ \E k \in CallIds, c \in LockConns, o \in ProcOps, id \in ProcIds : LockProcCall(k, c, o, id)
    \/ \E k \in CallIds : LockProcCallLookup(k)
    \/ \E k \in CallIds : LockProcCallSend(k)
    \/ \E c \in LockConns : LockConnTerminate(c)

SpecLock == Init /\ [][LockNext]_vars

\* The tasks the executor keeps scheduling: the handlers, the workers'
\* receive and the cleanup continuations; a killed process ends.
LockFairness ==
    /\ \A p \in ProcIds : WF_vars(LockProcSpawnInsert(p))
    /\ \A p \in ProcIds : WF_vars(LockCleanupGlobal(p))
    /\ \A p \in ProcIds : WF_vars(LockCleanupLocal(p))
    /\ \A p \in ProcIds, o \in ProcOps : WF_vars(LockWorkerRecv(p, o))
    /\ \A p \in ProcIds : WF_vars(workerT[p].st = "killed" /\ \E early \in BOOLEAN : LockProcessExit(p, early))
    /\ \A k \in CallIds : WF_vars(LockProcCallLookup(k))
    /\ \A k \in CallIds : WF_vars(LockProcCallSend(k))

\* The calls of one connection that stays.
LockNextOneConn ==
    \/ LockProcSpawn(1)
    \/ \E p \in ProcIds : LockProcSpawnInsert(p)
    \/ \E p \in ProcIds, o \in ProcOps : LockWorkerRecv(p, o)
    \/ \E p \in ProcIds, early \in BOOLEAN : LockProcessExit(p, early)
    \/ \E p \in ProcIds : LockCleanupGlobal(p)
    \/ \E p \in ProcIds : LockCleanupLocal(p)
    \/ \E k \in CallIds, o \in ProcOps, id \in ProcIds : LockProcCall(k, 1, o, id)
    \/ \E k \in CallIds : LockProcCallLookup(k)
    \/ \E k \in CallIds : LockProcCallSend(k)

SpecLockFair == Init /\ [][LockNextOneConn]_vars /\ LockFairness

(***************************************************************************)
(* The CLI action: start, from the command to the interactive loop.        *)
(***************************************************************************)

\* cmd.operation: None, or the payload of the request.
CliOperations == {"None", "ProcRun", "FileRead", "DirRead"}

\* cmd.mode.
CliModes == {"Json", "Shell"}

\* res.payload of the response to the request.
CliPayloads ==
    {[type |-> "ProcStart", id |-> i] : i \in 1..MaxCliProcs}
    \cup {[type |-> t, id |-> 0] : t \in {"Error", "Ok", "Blob"}}

\* req.payload.is_proc_run().
is_proc_run(operation) == operation = "ProcRun"

\* proc_id: the id of a ProcStart response, 0 for every other response.
ProcIdOf(payload) == IF payload.type = "ProcStart" THEN payload.id ELSE 0

\* The loop only for an interactive command.
EntersLoop_OnlyInteractive(is_proc_req, interactive) == interactive

\* if is_proc_req || cmd.interactive.
EntersLoop(is_proc_req, interactive) == is_proc_req \/ interactive

\* The configuration interactive_loop is called with.
LoopConfigOf(mode, interactive, proc_id) ==
    IF mode = "Json" THEN [config |-> "Json", id |-> 0]
    ELSE IF interactive THEN [config |-> "Shell", id |-> 0]
    ELSE [config |-> "Proc", id |-> proc_id]

\* start from the test of interactive_loop's condition to its return.
CliLoop(run, is_proc_req, proc_id, loop_ok) ==
    IF EntersLoop(is_proc_req, run.interactive)
    THEN [run EXCEPT !.pc = "done",
                     !.loop = LoopConfigOf(run.mode, run.interactive, proc_id),
                     !.failed = IF loop_ok THEN "none" ELSE "loop",
                     !.res = IF loop_ok THEN "Ok" ELSE "IoError"]
    ELSE [run EXCEPT !.pc = "done", !.res = "Ok"]

\* start up to the request on its way (send_timeout awaits the response), or
\* to its end when there is no operation.
CliStart(interactive, operation, mode, loop_ok) ==
    /\ cli.pc \in {"idle", "done"}
    /\ LET run == [NoCli EXCEPT !.interactive = interactive, !.operation = operation, !.mode = mode] IN
        cli' = IF ~interactive /\ operation = "None"
               THEN [run EXCEPT !.pc = "done", !.res = "MissingOperation"]
               ELSE IF operation # "None"
               THEN [run EXCEPT !.pc = "sent", !.sent = 1]
               ELSE CliLoop(run, FALSE, 0, loop_ok)
    /\ UNCHANGED notCli

\* client.send_timeout(req, timeout).await? returns an error: no response in
\* time, or the transport failed.
CliSendFails ==
    /\ cli.pc = "sent"
    /\ cli' = [cli EXCEPT !.pc = "done", !.failed = "send", !.res = "TransportError"]
    /\ UNCHANGED notCli

\* The response arrives: proc_id, format_response(cmd.mode, res)?.print(),
\* then the loop or Ok(()).
CliReply(payload, format_ok, loop_ok) ==
    /\ cli.pc = "sent"
    /\ LET run == [cli EXCEPT !.payload = payload] IN
        cli' = IF ~format_ok
               THEN [run EXCEPT !.pc = "done", !.failed = "format", !.res = "IoError"]
               ELSE CliLoop(run, is_proc_run(cli.operation), ProcIdOf(payload), loop_ok)
    /\ UNCHANGED notCli

CliNext ==
    \/ \E interactive \in BOOLEAN, operation \in CliOperations, mode \in CliModes, loop_ok \in BOOLEAN :
          CliStart(interactive, operation, mode, loop_ok)
    \/ CliSendFails
    \/ \E payload \in CliPayloads, format_ok \in BOOLEAN, loop_ok \in BOOLEAN :
          CliReply(payload, format_ok, loop_ok)

SpecCli == Init /\ [][CliNext]_vars

(***************************************************************************)
(* Claims about the process registries.                                    *)
(***************************************************************************)

\* C1: when proc_spawn returns Ok(id), id is in the global registry and in the
\* local registry of the connection it was spawned on.
C1_RegisteredOnReturn ==
    [][\A p \in ProcIds :
        (spawnPc[p] = "spawned" /\ spawnPc'[p] = "returned")
            => (p \in processes' /\ p \in local_processes'[pconn[p]])]_vars

\* C2: after a connection terminated, every process spawned on it is eventually
\* ended and its id is in neither registry.
C2_TerminatedConnectionCleaned ==
    \A p \in ProcIds :
        (pconn[p] # 0 /\ ~connAlive[pconn[p]] /\ spawnPc[p] = "returned")
            ~> (pstate[p] = "exited" /\ p \notin processes /\ p \notin local_processes[pconn[p]])

\* C3: once the process has ended, its cleanup continuation has run and
\* proc_spawn has returned, the id is in neither registry, whichever of the
\* insertion and the cleanup came first.
C3_ExitedProcessUnregistered ==
    \A p \in ProcIds :
        (spawnPc[p] = "returned" /\ cleanupPc[p] = "done")
            => (p \notin processes /\ p \notin local_processes[pconn[p]])

\* C4: a proc_kill, proc_stdin or proc_resize_pty issued with an id that is
\* not in the global registry returns BrokenPipe at once and changes neither
\* registry.
C4_MissingIdBrokenPipe ==
    [][\A k \in CallIds :
        (calls[k].pc = "idle" /\ calls'[k].pc # "idle" /\ calls'[k].id \notin processes)
            => /\ calls'[k].pc = "done"
               /\ calls'[k].res = "BrokenPipe"
               /\ processes' = processes
               /\ local_processes' = local_processes]_vars

C4_Witness ==
    \E j, k \in CallIds :
        /\ calls[j].pc = "done" /\ calls[j].miss /\ calls[j].op = "stdin"
        /\ calls[k].pc = "done" /\ calls[k].miss /\ calls[k].op = "resize"
        /\ processes # {}

\* A resize or kill of a PTY process that proc_spawn has returned, issued and
\* completed while the process has not ended, returns Ok.
ResizeKillOkWhileAlive ==
    \A k \in CallIds :
        (/\ calls[k].pc = "done" /\ calls[k].op \in {"resize", "kill"}
         /\ ppty[calls[k].id] /\ calls[k].live /\ calls[k].alive)
            => calls[k].res = "Ok"

\* C5 as stated: resize and kill of the spawned PTY process return Ok, and
\* every kill issued after a kill that returned Ok returns BrokenPipe.
C5_KillAfterKillBrokenPipe ==
    /\ ResizeKillOkWhileAlive
    /\ \A k \in CallIds :
        (calls[k].pc = "done" /\ calls[k].op = "kill" /\ calls[k].afterKill)
            => calls[k].res = "BrokenPipe"

\* C5 amended: resize and kill of the spawned PTY process return Ok while the
\* process has not ended, and every proc_kill, proc_stdin or proc_resize_pty
\* issued after the worker of the process has ended (cleanup finished) returns
\* BrokenPipe, whether or not the id is still registered.
C5_KillAfterCleanupBrokenPipe ==
    /\ ResizeKillOkWhileAlive
    /\ \A k \in CallIds :
        (calls[k].pc = "done" /\ calls[k].late) => calls[k].res = "BrokenPipe"

C5_Witness ==
    \E j, k \in CallIds :
        /\ calls[j].pc = "done" /\ calls[j].op = "kill" /\ calls[j].res = "Ok"
        /\ ppty[calls[j].id] /\ calls[j].live /\ calls[j].alive
        /\ calls[k].pc = "done" /\ calls[k].op = "kill" /\ calls[k].id = calls[j].id
        /\ calls[k].afterKill /\ calls[k].late
        /\ calls[k].res = "BrokenPipe"

(***************************************************************************)
(* Claims about remove and exists.                                         *)
(***************************************************************************)
\* The nodes of the tree below node n, n included.
RECURSIVE Subtree(_, _)
Subtree(k, n) == {n} \cup UNION {Subtree(k, c) : c \in Children(k, n)}

\* The remove that has returned was called on the path it was given last time,
\* with force both times, and that time it returned Ok.
SecondForcedRemove ==
    /\ rm.pc = "done" /\ rm.force
    /\ prev.pc = "done" /\ prev.force /\ prev.res = "Ok" /\ prev.path = rm.path

\* After remove(path, force=true) has returned Ok, exists(path) answers false.
ExistsFalseAfterForcedRemove ==
    (/\ rm.pc = "done" /\ rm.force /\ (rm.res = "Ok" \/ SecondForcedRemove)
     /\ ex # <<>> /\ ex[1] = rm.path)
        => ex[2] = FALSE

\* C6 as stated: after remove(path, force=true) returned Ok, exists(path) is
\* false and a second remove(path, force=true) fails with NotFound.
C6_SecondRemoveNotFound ==
    /\ ExistsFalseAfterForcedRemove
    /\ SecondForcedRemove => rm.res = "NotFound"

\* C6 amended: after remove(path, force=true) returned Ok, exists(path) is
\* false and a second remove(path, force=true) fails with an error of kind
\* Other.
C6_SecondRemoveOther ==
    /\ ExistsFalseAfterForcedRemove
    /\ SecondForcedRemove => rm.res = "Other"

C6_Witness ==
    /\ SecondForcedRemove
    /\ rm.res = "Other"
    /\ ex = <<rm.path, FALSE, "none">>
    /\ Len(rm.path) = 1
    /\ \E n \in Nodes : Parent(n) # 0 /\ pre[n] = "none"

\* C7: remove(path, force=false) on a directory that is not empty returns an
\* error of kind Other or Unknown and leaves the file system as it was.
C7_NonEmptyDirErrorOther ==
    LET n == SftpSymlinkMetadata(pre, rm.path) IN
    (/\ rm.pc = "done" /\ ~rm.force
     /\ n \in Nodes /\ pre[n] = "dir" /\ Children(pre, n) # {})
        => (rm.res \in {"Other", "Unknown"} /\ fsKind = pre)

\* C8: remove(path, force) on a symbolic link, whatever it points to, returns
\* Ok and deletes the link and nothing else.
C8_SymlinkUnlinked ==
    LET n == SftpSymlinkMetadata(pre, rm.path) IN
    (rm.pc = "done" /\ n \in Nodes /\ pre[n] = "link")
        => (rm.res = "Ok" /\ fsKind = [pre EXCEPT ![n] = "none"])

\* C9: remove(path, force=false) on a regular file or an empty directory that
\* the remote lets go of returns Ok; afterwards the path is gone and every
\* other path is as it was.
C9_RemoveFileOrEmptyDir ==
    LET n == SftpSymlinkMetadata(pre, rm.path) IN
    (/\ rm.pc = "done" /\ ~rm.force /\ n \in Nodes /\ n \notin denied
     /\ (pre[n] = "file" \/ (pre[n] = "dir" /\ Children(pre, n) = {})))
        => (rm.res = "Ok" /\ fsKind = [pre EXCEPT ![n] = "none"])

C9_Witness ==
    LET n == SftpSymlinkMetadata(pre, rm.path) IN
    /\ rm.pc = "done" /\ ~rm.force /\ rm.res = "Ok"
    /\ n \in Nodes /\ pre[n] = "dir" /\ fsKind[n] = "none"
    /\ \E m \in Nodes : fsKind[m] = "file"
    /\ prev.pc = "done" /\ ~prev.force /\ prev.res = "Ok" /\ ~(prev.path = rm.path)

\* C10: remove(path, force=true) on a directory issues the delete of a
\* directory only when that directory is empty and every entry collected
\* inside it has been popped before it, the root being popped last; when it
\* returns Ok nothing is left of the tree.
C10_ForcedRemoveBottomUp ==
    LET n == SftpSymlinkMetadata(pre, rm.path) IN
    (rm.force /\ n \in Nodes /\ pre[n] = "dir") =>
        /\ (rm.pc = "delete" /\ rm.entries # <<>>) =>
            LET last == rm.entries[Len(rm.entries)] IN
            /\ rm.entries[1].path = rm.path
            /\ \A i \in 2..Len(rm.entries) : rm.entries[i].depth > 0
            /\ \A i \in 1..Len(rm.entries) : ~IsStrictPrefix(last.path, rm.entries[i].path)
            /\ last.file_type = "Dir" => Children(fsKind, SftpReadDirNode(fsKind, last.path)) = {}
        /\ (rm.pc = "done" /\ rm.res = "Ok") => \A m \in Subtree(pre, n) : fsKind[m] = "none"

C10_Witness ==
    LET n == SftpSymlinkMetadata(pre, rm.path) IN
    /\ rm.pc = "done" /\ rm.force /\ rm.res = "Ok"
    /\ n \in Nodes /\ pre[n] = "dir"
    /\ \E c \in Children(pre, n) : pre[c] = "dir" /\ Cardinality(Children(pre, c)) = 2
    /\ Cardinality(Children(pre, n)) = 2
    /\ \A m \in Subtree(pre, n) : fsKind[m] = "none"

\* C11: exists(path) never returns an error: its answer is true when the
\* metadata of path can be read and false when the lookup fails, be it for a
\* missing path, a refusal or a broken transport; it changes nothing on the
\* remote.
C11_ExistsNeverErrs ==
    [][(ex' # ex /\ ex' # <<>>) =>
        /\ ex'[2] \in BOOLEAN
        /\ ex'[2] = (ex'[3] = "none" /\ \E n \in Nodes : fsKind[n] # "none" /\ Walk(fsKind, ex'[1], 1, 0) = n)
        /\ <<fsKind', fsTarget', denied'>> = <<fsKind, fsTarget, denied>>]_vars

C11_Witness ==
    /\ ex # <<>> /\ ex[2] = FALSE /\ ex[3] = "PermissionDenied"
    /\ SftpSymlinkMetadata(fsKind, ex[1]) # -1
    /\ \E n \in Nodes : fsKind[n] = "link" /\ fsTarget[n] = 0
    /\ rm.pc = "done"

(***************************************************************************)
(* Claims about requests and responses.                                    *)
(***************************************************************************)
\* Every item a sink has received carries the id of the request the sink was
\* registered for and was produced for that request of that client.
Correlated ==
    \A c \in RpcClients, i \in ReqIds :
        \A k \in 1..Len(mailbox[c][i]) :
            /\ mailbox[c][i][k].origin_id = i
            /\ mailbox[c][i][k].answers = <<c, i>>

ReadDirOk == rd.pc = "done" /\ rd.res = "Ok"

\* C13: the entries read_dir returns are in ascending lexicographic order of
\* path, for every tree and every combination of depth, absolute, canonicalize
\* and include_root.
C13_EntriesSortedByPath ==
    ReadDirOk =>
        \A i, j \in 1..Len(rd.entries) : i < j => LexLeq(rd.entries[i].path, rd.entries[j].path)

C13_Witness ==
    /\ ReadDirOk
    /\ Len(rd.entries) >= 4
    /\ rd.canonicalize /\ ~rd.absolute /\ rd.include_root
    /\ \E i, j \in 1..Len(rd.entries) : i < j /\ rd.entries[i].depth > rd.entries[j].depth
    /\ \E i \in 1..Len(rd.entries) : IsAbsolute(rd.entries[i].path)
    /\ \E i \in 1..Len(rd.entries) : ~IsAbsolute(rd.entries[i].path)

\* The node an entry names: a relative path is taken from the root of the walk.
EntryNode(e) == LstatAbs(fsKind, IF IsAbsolute(e.path) THEN e.path ELSE rd.root_path \o e.path)

\* The node the walk starts at.
RootNode == LstatAbs(fsKind, rd.root_path)

\* The depth of node n below node r.
DepthBelow(n, r) == Len(PathOf(n)) - Len(PathOf(r))

\* The directories that are listed on the way from r down to n.
Between(n, r) == {m \in 0..MaxNodes : (m = r \/ IsStrictPrefix(PathOf(r), PathOf(m))) /\ IsStrictPrefix(PathOf(m), PathOf(n))}

\* Node n lies below the root of the walk within the depth asked for and the
\* directories above it can be listed.
Due(n) ==
    /\ fsKind[n] # "none"
    /\ IsStrictPrefix(PathOf(RootNode), PathOf(n))
    /\ rd.depth > 0 => DepthBelow(n, RootNode) <= rd.depth
    /\ Between(n, RootNode) \cap unlistable = {}
    /\ rd.canonicalize => fsKind[n] # "link"

\* C14: read_dir is depth-bounded: with depth = d > 0 every entry returned has
\* depth <= d and every node at depth <= d that can be listed without error is
\* returned; with depth = 0 every node reachable from the root without error
\* is returned.
C14_DepthBounded ==
    ReadDirOk =>
        /\ rd.depth > 0 => \A i \in 1..Len(rd.entries) : rd.entries[i].depth <= rd.depth
        /\ \A n \in Nodes : Due(n) => \E i \in 1..Len(rd.entries) : EntryNode(rd.entries[i]) = n

\* The node whose processing added an item to the errors.
ErrorNode(x) == LstatAbs(fsKind, IF IsAbsolute(x.at) THEN x.at ELSE rd.root_path \o x.at)

\* C15: every entry read_dir returns names a node of the tree rooted at the
\* canonicalized input path, and no node whose processing added an item to
\* the errors is among the entries, for every combination of the flags.
C15_EntriesInTreeNoErrors ==
    ReadDirOk =>
        /\ \A i \in 1..Len(rd.entries) :
            LET n == EntryNode(rd.entries[i])
            IN  n # -1 /\ (n = RootNode \/ IsStrictPrefix(PathOf(RootNode), PathOf(n)))
        /\ \A i \in 1..Len(rd.entries), j \in 1..Len(rd.errors) :
            EntryNode(rd.entries[i]) # ErrorNode(rd.errors[j])

\* C16: the depth-0 entry is among the entries exactly once when include_root
\* is true and not at all when it is false; every other entry the walk
\* visited is returned whatever include_root is.
C16_RootOnceIfIncluded ==
    ReadDirOk =>
        /\ Cardinality({i \in 1..Len(rd.entries) : rd.entries[i].depth = 0}) = (IF rd.include_root THEN 1 ELSE 0)
        /\ \A i \in 1..Len(rd.entries) : rd.entries[i].depth = 0 => rd.entries[i].path = rd.root_path
        /\ Cardinality({i \in 1..Len(rd.entries) : rd.entries[i].depth > 0}) = rd.visited

C16_Witness ==
    /\ ReadDirOk /\ rd.include_root /\ rd.canonicalize /\ rd.absolute
    /\ Len(rd.entries) >= 3
    /\ \E i \in 1..Len(rd.entries) : rd.entries[i].depth > 0 /\ EntryNode(rd.entries[i]) = RootNode

\* What goes wrong in the turn of the loop that pops the last entry of
\* to_traverse: the link does not resolve, the directory cannot be listed,
\* children that cannot be canonicalized.
TurnEntry == rd.to_traverse[Len(rd.to_traverse)]
TurnPath == IF IsAbsolute(TurnEntry.path) THEN TurnEntry.path ELSE rd.root_path \o TurnEntry.path
TurnUnresolved == TurnEntry.file_type = "Symlink" /\ StatAbs(fsKind, TurnPath) = -1
TurnListed ==
    /\ ~TurnUnresolved
    /\ \/ TurnEntry.file_type = "Dir"
       \/ TurnEntry.file_type = "Symlink" /\ KindOf(fsKind, StatAbs(fsKind, TurnPath)) = "dir"
    /\ rd.depth = 0 \/ TurnEntry.depth + 1 <= rd.depth
TurnUnlistable == TurnListed /\ ListedDir(fsKind, TurnPath) = -1
TurnLostChildren ==
    IF TurnListed /\ ~TurnUnlistable /\ rd.canonicalize
    THEN {c \in Children(fsKind, ListedDir(fsKind, TurnPath)) : StatAbs(fsKind, Append(TurnPath, c)) = -1}
    ELSE {}

\* C17: a failure while listing or resolving a node other than the root adds
\* one item to the errors and the walk goes on with the remaining nodes, the
\* call returning Ok in the end; a failure listing the root makes read_dir
\* return an error of kind Other and no entries.
C17_ErrorsCollectedRootFatal ==
    [][/\ (rd.pc = "walk" /\ rd' # rd) =>
            IF TurnUnlistable /\ TurnEntry.depth = 0
            THEN rd'.pc = "done" /\ rd'.res = "Other" /\ rd'.entries = <<>>
            ELSE /\ rd'.pc \in {"walk", "sort"}
                 /\ Len(rd'.errors) = Len(rd.errors) + Cardinality(TurnLostChildren)
                                        + (IF TurnUnresolved \/ TurnUnlistable THEN 1 ELSE 0)
                 /\ SubSeq(rd'.errors, 1, Len(rd.errors)) = rd.errors
                 /\ Len(rd'.to_traverse) >= Len(rd.to_traverse) - 1
                 /\ SubSeq(rd'.to_traverse, 1, Len(rd.to_traverse) - 1)
                        = SubSeq(rd.to_traverse, 1, Len(rd.to_traverse) - 1)
       /\ (rd.pc = "sort" /\ rd' # rd) =>
            rd'.pc = "done" /\ rd'.res = "Ok" /\ rd'.errors = rd.errors]_vars

C17_Witness ==
    /\ ReadDirOk
    /\ Len(rd.errors) = 2
    /\ unlistable # {} /\ unlistable # {RootNode}
    /\ Len(rd.entries) >= 3

(***************************************************************************)
(* Claims about create_dir.                                                *)
(***************************************************************************)
\* The nodes on the way from the root down to node n, n included.
Chain(n) == {PathOf(n)[i] : i \in 1..Len(PathOf(n))}

IsUp(a) == a.phase = "up"
IsReplay(a) == a.phase = "replay"

\* C18: create_dir(path, all=true) returns Ok when path is a directory already
\* (and the transport did not fail), and whenever it returns Ok path and every
\* ancestor of it are directories afterwards.
C18_MkdirP ==
    (mk.pc = "done" /\ mk.all) =>
        /\ (/\ KindOf(pre, Slot(mk.path)) = "dir"
            /\ \A i \in 1..Len(mk.log) : mk.log[i].result # "Failure") => mk.res = "Ok"
        /\ mk.res = "Ok" => \A m \in Chain(Slot(mk.path)) : fsKind[m] = "dir"

\* What create_dir(path, all=true) has returned, against the mkdir calls it made.
UpwardThenReplayed ==
    LET ups == SelectSeq(mk.log, IsUp)
        reps == SelectSeq(mk.log, IsReplay)
    IN  (mk.pc = "done" /\ mk.all) =>
        /\ ups # <<>> /\ ups[1].path = mk.path
        /\ \A i \in 2..Len(ups) : ups[i - 1].result # "Ok" /\ ups[i].path = PathParent(ups[i - 1].path)
        /\ IF \A i \in 1..Len(ups) : ups[i].result # "Ok"
           THEN /\ ~HasParent(ups[Len(ups)].path)
                /\ mk.res = "PermissionDenied"
                /\ mk.err = [reason |-> ups[1].result, path |-> ups[1].path]
                /\ fsKind = pre
           ELSE /\ \A j \in 1..Len(reps) : reps[j].path = ups[Len(ups) - j].path
                /\ \A j \in 1..Len(reps) - 1 : reps[j].result = "Ok"
                /\ IF reps # <<>> /\ reps[Len(reps)].result # "Ok"
                   THEN /\ mk.res = "Other"
                        /\ mk.err = [reason |-> reps[Len(reps)].result, path |-> reps[Len(reps)].path]
                   ELSE /\ Len(reps) = Len(ups) - 1
                        /\ mk.res = "Ok"

\* C19: in create_dir(path, all=true) the upward walk ends; when mkdir failed
\* for path and for every ancestor up to the one that has no parent the call
\* returns PermissionDenied wrapping the first mkdir error and no directory
\* was created; otherwise the paths that failed are created from the
\* shallowest to the deepest and the first error of that is returned.
C19_UpwardWalkThenReplay ==
    /\ []UpwardThenReplayed
    /\ (mk.pc = "up") ~> (mk.pc \in {"replay", "done"})

C19_Witness ==
    LET reps == SelectSeq(mk.log, IsReplay) IN
    /\ mk.pc = "done" /\ mk.all /\ mk.res = "Other"
    /\ Len(reps) = 2 /\ reps[1].result = "Ok" /\ reps[2].result = "Failure"
    /\ \E n \in Nodes : pre[n] = "none" /\ fsKind[n] = "dir" /\ Parent(n) \in Nodes /\ pre[Parent(n)] = "none"

(***************************************************************************)
(* Claims about the capabilities.                                          *)
(***************************************************************************)
Unsupported == {"SetPermissions", "Search", "CancelSearch"}

\* C20: set_permissions returns an Unsupported error for every input and
\* changes no permission on the remote, and version never advertises
\* SetPermissions, Search or CancelSearch while it advertises every other
\* capability.
C20_CapabilitiesAgree ==
    [][/\ fsMode' = fsMode
       /\ sp' # sp => sp'[4] = "Unsupported"
       /\ ver' # ver => (ver' \cap Unsupported = {} /\ ver' \cup Unsupported = AllCapabilities)]_vars

C20_Witness ==
    /\ sp # <<>> /\ sp[4] = "Unsupported" /\ sp[3]
    /\ fsMode[Slot(sp[1])] # sp[2]
    /\ "SetPermissions" \notin ver /\ "Exec" \in ver
(***************************************************************************)
(* Claims about system_info.                                               *)
(***************************************************************************)
\* What system_info answers for a host asked directly.
OwnSystemInfo(h) == SystemInfoOf(h.is_windows, CurrentDirOf(h.current_dir), h.username, h.shell)

\* C21: the once-initialized values of is_windows and system_info are kept
\* per connection: with two sessions to different hosts in one process, a
\* successful system_info on each reports the values of its own host, in
\* whichever order the calls are made.
C21_SystemInfoOfOwnRemote ==
    \A a \in Apis : si[a].res = "Ok" => si[a] = OwnSystemInfo(remote[a])

(***************************************************************************)
(* Claims about the manager client.                                        *)
(***************************************************************************)
LastTaken == mc.taken[Len(mc.taken)]

\* The call has returned from the arm of the response taken last.
ReturnedOn(variants) == mc.pc = "done" /\ mc.taken # <<>> /\ LastTaken.variant \in variants

\* The messages a reply is owed to.
Prompt(r) == r.variant = "Authenticate" /\ r.kind \in {"Initialization", "Challenge", "Verification"}

Prompts == SelectSeq(mc.taken, Prompt)

\* C22: each operation returns the payload of its success response
\* unchanged (the id of Connected, the destination of Launched, the
\* ConnectionInfo, the ConnectionList, the supported set, Ok(()) on Killed),
\* connect and launch whether or not Authenticate messages came before it.
C22_SuccessPayloadReturned ==
    ReturnedOn({SuccessVariant(mc.op)}) =>
        mc.res = [ok |-> TRUE, kind |-> "Ok", value |-> LastTaken.content]

C22_Witness ==
    /\ ReturnedOn({"Connected"})
    /\ mc.op = "connect"
    /\ Len(mc.taken) = 3
    /\ mc.taken[1].variant = "Authenticate"
    /\ LastTaken.content = 2
    /\ mc.res.ok /\ mc.res.value = 2

\* C23: an Error{description} response makes connect, launch, info, list,
\* kill and capabilities return Err of kind Other whose message is the
\* description.
C23_ErrorResponseIsOther ==
    ReturnedOn({"Error"}) => mc.res = [ok |-> FALSE, kind |-> "Other", value |-> LastTaken.content]

C23_Witness ==
    /\ ReturnedOn({"Error"})
    /\ mc.op = "kill"
    /\ LastTaken.content = 2
    /\ mc.res.kind = "Other" /\ mc.res.value = 2

\* C24: a response that is neither the success variant of the operation
\* nor Error (nor Authenticate, for connect and launch) makes the call
\* return Err of kind InvalidData.
C24_UnexpectedIsInvalidData ==
    (/\ mc.pc = "done"
     /\ mc.taken # <<>>
     /\ LastTaken.variant \notin {SuccessVariant(mc.op), "Error"}
     /\ ~(LastTaken.variant = "Authenticate" /\ mc.op \in MultiOps))
    => (~mc.res.ok /\ mc.res.kind = "InvalidData")

C24_Witness ==
    /\ ReturnedOn({"Launched", "Killed"})
    /\ mc.op = "connect"
    /\ mc.res.kind = "InvalidData"

\* The i-th reply fired answers the i-th prompt taken: same auth id, same
\* kind of message.
RepliesInOrder ==
    \A i \in 1..Len(mc.fired) :
        /\ i <= Len(Prompts)
        /\ mc.fired[i].id = Prompts[i].id
        /\ mc.fired[i].kind = Prompts[i].kind

\* The call ended in the arm of a prompt, on the handler's error or on the
\* error of fire.
EndedUnanswered ==
    /\ mc.pc = "done"
    /\ mc.taken # <<>>
    /\ Prompt(LastTaken)
    /\ mc.res.kind \in {"Handler", "BrokenPipe"}

\* C25 as stated: during connect and launch the client sends exactly one
\* Authenticate reply for each Initialization, Challenge and Verification
\* taken from the mailbox, in the order received and with the auth id of the
\* prompt, and nothing for StartMethod, Info and Finished.
C25_OneReplyPerPrompt ==
    mc.op \in MultiOps => (Len(mc.fired) = Len(Prompts) /\ RepliesInOrder)

\* C25 amended: at most one reply per prompt, in the order received and with
\* the auth id of the prompt; exactly one unless the handler returned an
\* error for the prompt or the reply could not be put on the outbound
\* queue, which ends the call with that error and leaves the prompt
\* unanswered; nothing is sent for StartMethod, Info, Error and Finished.
C25_OneReplyPerAnsweredPrompt ==
    mc.op \in MultiOps =>
        /\ RepliesInOrder
        /\ Len(mc.fired) = IF EndedUnanswered THEN Len(Prompts) - 1 ELSE Len(Prompts)

C25_Witness ==
    /\ mc.op = "launch"
    /\ Len(mc.taken) = 3
    /\ mc.taken[1].kind = "Initialization" /\ mc.taken[1].id = 2
    /\ mc.taken[2].kind = "Info"
    /\ mc.taken[3].kind = "Challenge" /\ mc.taken[3].id = 1
    /\ Len(mc.fired) = 2
    /\ mc.fired[1].id = 2 /\ mc.fired[2].id = 1

\* What the step took from the mailbox.
Took(r) == Len(mc'.taken) = Len(mc.taken) + 1 /\ mc'.taken[Len(mc'.taken)] = r

FatalErrors == {r \in ManagerResponses : r.variant = "Authenticate" /\ r.kind = "Error" /\ r.fatal}
OtherErrors == {r \in ManagerResponses : r.variant = "Authenticate" /\ r.kind = "Error" /\ ~r.fatal}

\* C26: in connect and launch a fatal Authenticate Error ends the call at
\* once with an error of kind PermissionDenied, and no reply is sent then or
\* later; an Error that is not fatal leaves the call waiting for the next
\* message.
C26_FatalErrorEndsCall ==
    [][/\ \A r \in FatalErrors : (mc.op \in MultiOps /\ Took(r)) =>
              /\ mc'.pc = "done"
              /\ mc'.res = [ok |-> FALSE, kind |-> "PermissionDenied", value |-> r.content]
              /\ mc'.fired = mc.fired
       /\ \A r \in OtherErrors : (mc.op \in MultiOps /\ Took(r)) => (mc'.pc = "wait" /\ mc'.fired = mc.fired)
       /\ mc.pc = "done" => mc'.fired \in {mc.fired, <<>>}]_vars

C26_Witness ==
    /\ mc.op = "connect"
    /\ Len(mc.taken) = 3
    /\ mc.taken[1] \in OtherErrors
    /\ mc.taken[2].kind = "Challenge"
    /\ mc.taken[3] \in FatalErrors
    /\ mc.pc = "done"
    /\ mc.res.kind = "PermissionDenied"
    /\ Len(mc.fired) = 1

\* The call succeeded after an Error that was not fatal.
C26_SucceedsAfterError ==
    /\ mc.op = "connect"
    /\ Len(mc.taken) = 2
    /\ mc.taken[1] \in OtherErrors
    /\ mc.res.ok

\* The step took a response whose arm returns whatever the transport does.
TookTerminal ==
    \E r \in ManagerResponses : Took(r) /\ (r.variant # "Authenticate" \/ r \in FatalErrors)

\* C27: when the transport is lost during connect or launch before a
\* terminal response has arrived, whether the client waits for the next
\* item of the mailbox or sends a reply, the call returns Err of kind
\* UnexpectedEof.
C27_TransportLossIsUnexpectedEof ==
    [][(/\ mc.op \in MultiOps
        /\ mc.pc = "wait"
        /\ mc'.pc = "done"
        /\ ~mgrUp
        /\ ~TookTerminal
        /\ mc'.res.kind # "Handler")
       => mc'.res.kind = "UnexpectedEof"]_vars

\* C28: authentication is relayed unmodified by connect and launch: the
\* handler is handed the methods, questions or text of the message
\* received, and the reply sent carries the answer the handler returned.
C28_AuthRelayedUnmodified ==
    mc.op \in MultiOps =>
        /\ Len(mc.handled) = Len(Prompts)
        /\ \A i \in 1..Len(mc.handled) :
              /\ mc.handled[i].kind = Prompts[i].kind
              /\ mc.handled[i].content = Prompts[i].content
        /\ \A i \in 1..Len(mc.fired) :
              /\ mc.handled[i].ok
              /\ mc.fired[i].answer = mc.handled[i].answer

C28_Witness ==
    /\ mc.op = "connect"
    /\ Len(mc.fired) = 2
    /\ mc.handled[1].kind = "Challenge" /\ mc.handled[1].content = 2 /\ mc.fired[1].answer = 1
    /\ mc.handled[2].kind = "Verification" /\ mc.handled[2].content = 1 /\ mc.fired[2].answer = 2

\* The call returned from the arm of a terminal response.
Terminated == mc.pc = "done" /\ mc.taken # <<>> /\ LastTaken.variant # "Authenticate"

\* C29: once connect or launch has received a terminal response (Connected,
\* Launched, Error or an unexpected variant) it takes no further item from
\* the mailbox and sends no further Authenticate request, and the responses
\* that arrive later for the request are not delivered to the caller.
C29_NothingAfterTerminal ==
    /\ [](Terminated => mbox = <<>>)
    /\ [][(Terminated /\ mc.op \in MultiOps) =>
            \/ mc' = mc
            \/ (mc'.taken = <<>> /\ mc'.fired = <<>>)]_vars

C29_Witness ==
    /\ Terminated
    /\ mc.op = "connect"
    /\ LastTaken.variant = "Connected"
    /\ Len(mc.fired) = 1
    /\ late = 1

(***************************************************************************)
(* Claims about read_file and write_file.                                  *)
(***************************************************************************)
\* A read_file that met no failure of SFTP, of a file whose last write_file
\* returned Ok.
ReadAfterWrite == rf.res # "none" /\ rf.fault = "none" /\ wf[rf.path].res = "Ok"

\* C30: for every byte sequence b, valid UTF-8 or not, write_file(path, b)
\* followed by read_file(path) returns exactly b, and write_file replaces
\* the previous content of the file.
C30_WriteThenReadReturnsBytes ==
    /\ ReadAfterWrite => (rf.res = "Ok" /\ rf.contents = wf[rf.path].data)
    /\ \A f \in FilePaths : wf[f].res = "Ok" => fileData[f] = wf[f].data

\* The same for the byte sequences that are UTF-8 text.
C30_Utf8WriteThenRead ==
    /\ (ReadAfterWrite /\ read_to_string(wf[rf.path].data) # Invalid) =>
           (rf.res = "Ok" /\ rf.contents = wf[rf.path].data)
    /\ \A f \in FilePaths : wf[f].res = "Ok" => fileData[f] = wf[f].data

C30_Utf8Witness ==
    /\ ReadAfterWrite
    /\ wf["f"].data = <<226, 130, 172>>
    /\ rf.res = "Ok"

(***************************************************************************)
(* Claims about the walk of read_dir.                                      *)
(***************************************************************************)
\* The nodes of the remote tree, the root directory "/" included.
TreeSize == Cardinality({n \in Nodes : fsKind[n] # "none"}) + 1

\* C31: read_dir terminates on every finite tree with every combination of
\* flags, depth = 0 on a tree with a link to an ancestor included: the
\* worklist becomes empty after finitely many steps. With canonicalize set
\* every entry names a node of the tree by its canonical path, and the
\* entries from the root of the walk down to an entry of depth d are d + 1
\* of them: a walk that ends has no entry as deep as the tree has nodes,
\* since such an entry lies below an entry of its own path, whose listing
\* (the same at every depth when depth = 0) then queues it again for ever.
C31_WalkEnds ==
    (rd.pc = "walk" /\ rd.canonicalize /\ rd.depth = 0) =>
        \A i \in 1..Len(rd.to_traverse) : rd.to_traverse[i].depth < TreeSize

UnderRoot(p) == Len(rd.root_path) <= Len(p) /\ SubSeq(p, 1, Len(rd.root_path)) = rd.root_path

\* C32: with absolute = false every entry but the root whose path lies
\* under the canonicalized root is given relative to it, and a path that
\* does not lie under the root, which takes canonicalize = true, is given
\* unchanged; with absolute = true every path is absolute.
C32_PathsRelativeToRoot ==
    \A i \in 1..Len(rd.entries) :
        LET e == rd.entries[i]
        IN  e.depth > 0 =>
              IF rd.absolute THEN IsAbsolute(e.path)
              ELSE IF IsAbsolute(e.path)
                   THEN rd.canonicalize /\ ~UnderRoot(e.path) /\ LstatAbs(fsKind, e.path) # -1
                   ELSE LstatAbs(fsKind, rd.root_path \o e.path) # -1

C32_Witness ==
    /\ ReadDirOk
    /\ ~rd.absolute
    /\ rd.canonicalize
    /\ \E i, j \in 1..Len(rd.entries) :
          /\ rd.entries[i].depth > 0 /\ IsAbsolute(rd.entries[i].path)
          /\ rd.entries[j].depth > 0 /\ ~IsAbsolute(rd.entries[j].path) /\ rd.entries[j].path # <<>>


(***************************************************************************)
(* Claims about the locks of the process registries.                       *)
(***************************************************************************)

LockTasks == {Sp(p) : p \in ProcIds} \cup {Cl(p) : p \in ProcIds} \cup {Ca(k) : k \in CallIds}

\* C33: no task holds a guard of the global registry while it waits for or
\* holds the lock of a connection's registry, so no two tasks ever wait for
\* each other's registry lock.
C33_OneRegistryLockAtATime ==
    /\ \A t \in LockTasks, c \in LockConns :
          Holds(gLock, t) => ~(Waits(lLock[c], t) \/ Holds(lLock[c], t))
    /\ \A t, u \in LockTasks, c \in LockConns :
          ~(/\ Holds(gLock, t) /\ Waits(lLock[c], t)
            /\ Holds(lLock[c], u) /\ Waits(gLock, u))

\* A cleanup continuation is past the global registry and waits for its
\* connection's registry while a call holds a read guard of the global one
\* and a writer waits for it.
C33_Witness ==
    \E p \in ProcIds, k \in CallIds :
        /\ cleanupT[p] = "l_wait"
        /\ Waits(lLock[workerT[p].conn], Cl(p))
        /\ Holds(gLock, Ca(k))
        /\ \E t \in LockTasks : Waits(gLock, t)

\* C34: under fair scheduling every cleanup continuation and every
\* proc_spawn that waits for the write lock of the global registry gets it,
\* and every proc_kill / proc_stdin / proc_resize_pty call returns.
C34_NoTaskWaitsForever ==
    /\ \A p \in ProcIds : (cleanupT[p] = "g_wait") ~> (cleanupT[p] # "g_wait")
    /\ \A p \in ProcIds : (spawnT[p] = "wait") ~> (spawnT[p] = "returned")
    /\ \A k \in CallIds : (callT[k].pc \in {"wait", "sending"}) ~> (callT[k].pc = "done")

\* C35: no message of a call reaches the worker of a process that was
\* spawned on another connection than the call's.
C35_NoDeliveryAcrossConnections ==
    \A k \in CallIds : callT[k].delivered => ~callT[k].foreign

\* The deletion of the entry that the next turn of the loop pops is refused.
NextDeletionFails ==
    /\ rm.pc = "delete"
    /\ rm.entries # <<>>
    /\ LET entry == rm.entries[Len(rm.entries)]
       IN  ~(IF entry.file_type = "Dir" THEN SftpRemoveDirOk(fsKind, entry.path)
                                        ELSE SftpRemoveFileOk(fsKind, entry.path))

\* C36: in remove(path, force=true) the tree is as before the call as long as
\* it is enumerated; a listing that fails ends the call with the error
\* (kind Other) and the tree as before; a deletion that fails ends the call
\* with the error and deletes nothing, so that what was there before the
\* failed deletion is still there after the call.
C36_EnumerateThenDelete ==
    /\ [](rm.pc \in {"collect", "sort"} => fsKind = pre)
    /\ []((rm.pc = "done" /\ rm.force /\ rm.res = "Other") => fsKind = pre)
    /\ [][rm.pc = "collect" /\ rm'.pc = "done" => rm'.res = "Other"]_vars
    /\ [][NextDeletionFails =>
            /\ rm'.pc = "done" /\ rm'.res = "PermissionDenied"
            /\ fsKind' = fsKind]_vars

\* A forced remove stopped by a refused deletion after it had deleted
\* something, following a forced remove of a directory with entries that a
\* failed listing ended.
C36_Witness ==
    /\ rm.pc = "done" /\ rm.force /\ rm.res = "PermissionDenied"
    /\ fsKind # pre
    /\ \E n \in Nodes : fsKind[n] # "none" /\ IsStrictPrefix(rm.path, PathOf(n))
    /\ prev.pc = "done" /\ prev.force /\ prev.res = "Other"
    /\ SftpMetadata(pre, prev.path) # -1
    /\ Children(pre, SftpMetadata(pre, prev.path)) # {}


\* C37: in connect and launch, once the handler has returned an error for a
\* prompt the call has ended with that error; the prompt is the last
\* response taken from the mailbox, the last call of the handler, and no
\* Authenticate request was sent for it; the mailbox is gone.
C37_HandlerErrorEndsCall ==
    \A i \in 1..Len(mc.handled) :
        ~mc.handled[i].ok =>
            /\ mc.op \in MultiOps
            /\ i = Len(mc.handled)
            /\ mc.pc = "done"
            /\ mc.res = HandlerError
            /\ Prompt(LastTaken)
            /\ LastTaken.kind = mc.handled[i].kind
            /\ LastTaken.content = mc.handled[i].content
            /\ Len(mc.fired) = Len(mc.handled) - 1
            /\ mbox = <<>>

\* The handler answered a first prompt and returned an error for a second
\* one while a further response was queued behind it.
C37_Witness ==
    /\ mc.pc = "done"
    /\ mc.res = HandlerError
    /\ Len(mc.handled) = 2
    /\ mc.handled[1].ok /\ ~mc.handled[2].ok
    /\ Len(mc.fired) = 1
    /\ late > 0


(***************************************************************************)
(* Claims about the CLI action.                                            *)
(***************************************************************************)

InLoop == cli.loop # NoLoop

\* A command that is not interactive and has no operation ends with
\* MissingOperation and nothing sent; every other command sends its
\* operation, if any, once.
SentOnce ==
    IF ~cli.interactive /\ cli.operation = "None"
    THEN cli.res = "MissingOperation" /\ cli.sent = 0 /\ ~InLoop
    ELSE cli.sent = (IF cli.operation = "None" THEN 0 ELSE 1)

\* C38 as stated: start returns MissingOperation without sending anything
\* when the command is not interactive and has no operation; otherwise it
\* sends the operation (if any) exactly once and enters the interactive loop
\* if and only if the operation is a process run or the command is
\* interactive.
C38_LoopIffProcOrInteractive ==
    cli.pc = "done" =>
        /\ SentOnce
        /\ (~cli.interactive /\ cli.operation = "None")
              \/ (InLoop <=> (is_proc_run(cli.operation) \/ cli.interactive))

\* C38 amended: the same, the loop being entered if and only if the
\* operation is a process run or the command is interactive and neither the
\* request nor the formatting of its response failed; when one of them
\* fails start returns that error without entering the loop.
C38_LoopIffAnswered ==
    cli.pc = "done" =>
        /\ SentOnce
        /\ (~cli.interactive /\ cli.operation = "None")
              \/ (InLoop <=> /\ is_proc_run(cli.operation) \/ cli.interactive
                             /\ cli.failed \notin {"send", "format"})
        /\ cli.failed = "send" => cli.res = "TransportError"
        /\ cli.failed = "format" => cli.res = "IoError"

\* A process run of a command that is not interactive, answered and
\* formatted, is in the loop.
C38_Witness ==
    /\ cli.pc = "done"
    /\ cli.operation = "ProcRun" /\ ~cli.interactive
    /\ cli.sent = 1
    /\ cli.payload.type = "ProcStart"
    /\ InLoop

\* C39: the process loop is entered only with the id of a ProcStart
\* response, never with id 0 after another response.
C39_ProcLoopOnlyForStartedProcess ==
    cli.loop.config = "Proc" =>
        /\ cli.payload.type = "ProcStart"
        /\ cli.loop.id = cli.payload.id

====
